---------------------------- MODULE Spec2Model ----------------------------
(***************************************************************************)
(* A model of malevich_sdk: the pipeline builder (modelling/flow.py), the  *)
(* content hash and upsert of a Pipeline (core_api/pipeline.py), remote    *)
(* and local runs and their results (core_api/run.py), function            *)
(* references (utils.py), the credential store (usp/credstore.py) and      *)
(* File objects (modelling/file.py).                                       *)
(*                                                                         *)
(* Python strings are sequences of one-character strings, so that string   *)
(* formatting (f"{name}_{n}") and lexicographic key order are computed,    *)
(* not assumed.  A Python dict is a sequence of <<key, value>> pairs in    *)
(* insertion order.                                                        *)
(***************************************************************************)
EXTENDS Integers, Sequences, FiniteSets, TLC

\* Python's None (a tuple, as every string and dict of the model is one)
None == << "None" >>

(***************************************************************************)
(* Strings                                                                 *)
(***************************************************************************)
Alphabet ==
    << "0", "1", "2", "3", "4", "5", "6", "7", "8", "9", "_",
       "a", "b", "c", "d", "e", "f", "g", "h", "i", "j", "k", "l", "m",
       "n", "o", "p", "q", "r", "s", "t", "u", "v", "w", "x", "y", "z" >>

\* position of a character in ASCII order (digits < "_" < lower case)
Ord(c) == CHOOSE i \in 1..Len(Alphabet) : Alphabet[i] = c

RECURSIVE StrLess(_, _)
\* Python's s < t on str: lexicographic, a proper prefix is smaller
StrLess(s, t) ==
    IF t = << >> THEN FALSE
    ELSE IF s = << >> THEN TRUE
    ELSE IF Head(s) = Head(t) THEN StrLess(Tail(s), Tail(t))
    ELSE Ord(Head(s)) < Ord(Head(t))

RECURSIVE IntToStr(_)
\* str(n) for n >= 0: the decimal digits
IntToStr(n) ==
    IF n < 10 THEN << Alphabet[n + 1] >>
    ELSE IntToStr(n \div 10) \o << Alphabet[(n % 10) + 1] >>

S_name == << "n", "a", "m", "e" >>
S_input == << "_", "_", "i", "n", "p", "u", "t", "_", "_" >>
S_g == << "g" >>
S_h == << "h" >>
S_a == << "a" >>
S_b == << "b" >>

(***************************************************************************)
(* Python dict: insertion-ordered sequence of <<key, value>>               *)
(***************************************************************************)
DictKeys(d) == { d[i][1] : i \in 1..Len(d) }
DictHas(d, k) == k \in DictKeys(d)
DictIdx(d, k) == CHOOSE i \in 1..Len(d) : d[i][1] = k
DictGet(d, k) == d[DictIdx(d, k)][2]
\* d[k] = v: an existing key keeps its position, a new key is appended
DictPut(d, k, v) ==
    IF DictHas(d, k) THEN [d EXCEPT ![DictIdx(d, k)] = << k, v >>]
    ELSE Append(d, << k, v >>)
\* the dict as a mathematical map (what == on two dicts compares)
DictMap(d) == [k \in DictKeys(d) |-> DictGet(d, k)]

RECURSIVE DictFromPairs(_)
\* a dict comprehension / dict(pairs): later pairs overwrite earlier ones
DictFromPairs(ps) ==
    IF ps = << >> THEN << >>
    ELSE LET n == Len(ps) IN
         DictPut(DictFromPairs(SubSeq(ps, 1, n - 1)), ps[n][1], ps[n][2])

\* collections.defaultdict(lambda: 0), as a function on the keys present
DefGet(m, k) == IF k \in DOMAIN m THEN m[k] ELSE 0
DefSet(m, k, v) == [x \in (DOMAIN m) \cup {k} |-> IF x = k THEN v ELSE m[x]]


(***************************************************************************)
(* Values the builder is called with                                       *)
(***************************************************************************)
\* FunctionRef objects (modelling/image.py): two images of one processor id
Fn1 == [processor_id |-> "proc", ref |-> "img1"]
Fn2 == [processor_id |-> "proc", ref |-> "img2"]
Fns == {Fn1, Fn2}

\* config dicts: None, {} and {"k": 1}
CfgEmpty == << >>
CfgK == << << "k", 1 >> >>

\* keyword data (the default group): None, {} (falsy) and a payload
DataEmpty == << >>
DataV == << << "v", 1 >> >>

\* Group(name, **kwargs)
Group(name, data) == [name |-> name, data |-> data]

\* bool(x) of None or a dict
Truthy(x) == x # None /\ x # << >>

RECURSIVE JsonItems(_)
JsonItems(d) ==
    IF d = << >> THEN << >>
    ELSE << d[1][1], ":", d[1][2] >>
         \o (IF Len(d) > 1 THEN << "," >> ELSE << >>)
         \o JsonItems(Tail(d))

\* json.dumps(d) of a flat dict, as the token sequence of its text: the
\* items appear in insertion order (no sort_keys here)
JsonDumps(d) == << "{" >> \o JsonItems(d) \o << "}" >>

(***************************************************************************)
(* Flow (modelling/flow.py)                                                *)
(***************************************************************************)
\* AlternativeArgument(collectionName=...) and AlternativeArgument(id=...)
ArgCollection(cn) == [id |-> None, collectionName |-> cn]
ArgUpstream(fid) == [id |-> fid, collectionName |-> None]

\* FlowGroup(name, collection_name, **data)
FlowGroup(name, cn, data) == [name |-> name, collection_name |-> cn, data |-> data]

\* Flow.__init__
NewFlow ==
    [ id_map |-> << >>,     \* defaultdict(lambda: 0): no key yet
      procs  |-> << >>,     \* CorePipeline.processors
      groups |-> << >>,     \* defaultdict(dict)
      refs   |-> {} ]       \* flow ids of the FlowRef handles handed out

\* the check both startwith and add make before creating a node
NodeExists(fl, name) == S_name \in DOMAIN fl.id_map

RECURSIVE MapGroups(_, _)
\* the loop over *groups of startwith: counts the group name and names the
\* collection f"{group.name}_{n}"
MapGroups(id_map, groups) ==
    IF groups = << >> THEN [id_map |-> id_map, mapped |-> << >>]
    ELSE LET g == Head(groups)
             n == DefGet(id_map, g.name) + 1
             m1 == DefSet(id_map, g.name, n)
             cn == g.name \o << "_" >> \o IntToStr(n)
             rest == MapGroups(m1, Tail(groups))
         IN [ id_map |-> rest.id_map,
              mapped |-> << FlowGroup(g.name, cn, g.data) >> \o rest.mapped ]

\* collection name of the default data group: f"__input__{id_map['__input__']}"
DefaultCollection(id_map) == S_input \o IntToStr(DefGet(id_map, S_input))

RECURSIVE StoreGroups(_, _)
\* for mapped_group in mapped_groups: d[mapped_group.name] = mapped_group
StoreGroups(d, mapped) ==
    IF mapped = << >> THEN d
    ELSE StoreGroups(DictPut(d, Head(mapped).name, Head(mapped)), Tail(mapped))

\* Processor(image=..., processorId=..., cfg=json.dumps(config or {}), arguments=...)
Processor(function, config, arguments) ==
    [ image       |-> function,
      processorId |-> function.processor_id,
      cfg         |-> JsonDumps(IF Truthy(config) THEN config ELSE << >>),
      arguments   |-> arguments ]

\* Flow.startwith: [flow, err]
StartWith(fl, name, groups, function, config, data) ==
    IF NodeExists(fl, name) THEN [flow |-> fl, err |-> "exists"]
    ELSE
      LET mg == MapGroups(fl.id_map, groups)
          \* reading id_map['__input__'] creates the key with 0
          im == IF Truthy(data)
                THEN DefSet(mg.id_map, S_input, DefGet(mg.id_map, S_input))
                ELSE mg.id_map
          mapped == IF Truthy(data)
                    THEN Append(mg.mapped,
                                FlowGroup(S_input, DefaultCollection(mg.id_map), data))
                    ELSE mg.mapped
          old == IF DictHas(fl.groups, name) THEN DictGet(fl.groups, name) ELSE << >>
          gr == IF mapped = << >> THEN fl.groups
                ELSE DictPut(fl.groups, name, StoreGroups(old, mapped))
          args == DictFromPairs([i \in 1..Len(mapped) |->
                     << mapped[i].name, ArgCollection(mapped[i].collection_name) >>])
      IN [ flow |-> [ id_map |-> im,
                      procs  |-> DictPut(fl.procs, name, Processor(function, config, args)),
                      groups |-> gr,
                      refs   |-> fl.refs \cup {name} ],
           err |-> "none" ]

\* Flow.add: [flow, err]
Add(fl, name, function, config) ==
    IF NodeExists(fl, name) THEN [flow |-> fl, err |-> "exists"]
    ELSE [ flow |-> [fl EXCEPT
                       !.procs = DictPut(fl.procs, name, Processor(function, config, << >>)),
                       !.refs = fl.refs \cup {name}],
           err |-> "none" ]

\* (mutant) a caller that makes up FlowRef handles of its own
ForgedRefs(fl) == { S_a, S_b }

\* the FlowRef handles a caller can pass: those startwith / add returned
IssuedRefs(fl) == fl.refs

\* the two duplicate checks of addflow, on the groups and on the arguments
GroupSet(fl, to, in_) ==
    DictHas(fl.groups, in_) /\ DictHas(DictGet(fl.groups, in_), to)
\* (mutant) addflow without its check of the arguments already set
ArgumentNeverSet(fl, to, in_) == FALSE

ArgumentSet(fl, to, in_) == DictHas(DictGet(fl.procs, in_).arguments, to)

\* Flow.addflow(from_, to, in_): [flow, err]
AddFlow(fl, from_, to, in_) ==
    LET \* self.__groups[in_.flow_id] on a defaultdict creates the entry
        gr == IF DictHas(fl.groups, in_) THEN fl.groups
              ELSE DictPut(fl.groups, in_, << >>)
        touched == [fl EXCEPT !.groups = gr]
    IN IF GroupSet(fl, to, in_) THEN [flow |-> touched, err |-> "group_set"]
       \* processors[in_.flow_id] of a flow id that is no node: KeyError
       ELSE IF ~DictHas(fl.procs, in_) THEN [flow |-> touched, err |-> "key_error"]
       ELSE IF ArgumentSet(fl, to, in_) THEN [flow |-> touched, err |-> "argument_set"]
       ELSE LET p == DictGet(fl.procs, in_)
                p1 == [p EXCEPT !.arguments = DictPut(p.arguments, to, ArgUpstream(from_))]
            IN [ flow |-> [touched EXCEPT !.procs = DictPut(fl.procs, in_, p1)],
                 err |-> "none" ]

(***************************************************************************)
(* Pipeline (core_api/pipeline.py)                                         *)
(***************************************************************************)
\* (mutant) json.dumps without sort_keys: the items in insertion order
UnsortedItems(d) == d

\* the items of a dict ordered by key, as json.dumps(..., sort_keys=True)
\* writes them
SortedItems(d) == SortSeq(d, LAMBDA x, y : StrLess(x[1], y[1]))

\* model_dump of an AlternativeArgument, keys sorted
DumpArgument(a) == << "collectionName", a.collectionName, "id", a.id >>

DumpArguments(args) ==
    LET it == SortedItems(args)
    IN [i \in 1..Len(it) |-> << it[i][1], DumpArgument(it[i][2]) >>]

\* (mutant) a dump that leaves the argument bindings out
DumpProcessorNoArguments(p) ==
    << "cfg", p.cfg,
       "image", << "processor_id", p.image.processor_id, "ref", p.image.ref >>,
       "processorId", p.processorId >>

\* model_dump of a Processor, keys sorted
DumpProcessor(p) ==
    << "arguments", DumpArguments(p.arguments),
       "cfg", p.cfg,
       "image", << "processor_id", p.image.processor_id, "ref", p.image.ref >>,
       "processorId", p.processorId >>

\* json.dumps(processors_dict, sort_keys=True)
Serialize(procs) ==
    LET it == SortedItems(procs)
    IN [i \in 1..Len(it) |-> << it[i][1], DumpProcessor(it[i][2]) >>]

\* hashlib.sha256(text).digest(): treated as injective on the text
Sha256(text) == << "sha256", text >>

\* Pipeline.hash
Hash(procs) == Sha256(Serialize(procs))

\* bytes.hex()
Hex(digest) == << "hex", digest >>

\* Pipeline.__init__
Pipeline(id, procs, result_map) ==
    [ id         |-> IF id = None THEN Hex(Hash(procs)) ELSE id,
      processors |-> procs,
      result_map |-> result_map ]

\* Pipeline.__init__ keeps the dict object it is given: a Pipeline holds a
\* dict of its own, or (FlowsOwnDict) the very dict its flow goes on filling
FlowsOwnDict == << << << "flow" >>, << "dict" >> >> >>
HeldProcessors(pl, fl) ==
    IF pl.processors = FlowsOwnDict THEN fl.procs ELSE pl.processors

\* (mutant) a from_core_pipeline that hands the flow's own dict to Pipeline
FromCorePipelineShared(procs) ==
    [Pipeline(None, procs, None) EXCEPT !.processors = FlowsOwnDict]

\* Pipeline.from_core_pipeline: a Pipeline over a copy of the processors
FromCorePipeline(procs) == Pipeline(None, procs, None)

\* Flow.build
Build(fl) == FromCorePipeline(fl.procs)

\* Pipeline.as_core_pipeline.results: one Result per node, named
\* hash().hex() + '_' + key
LocalResults(procs) ==
    [i \in 1..Len(procs) |->
        << procs[i][1], << [name |-> << Hex(Hash(procs)), "_" >> \o procs[i][1]] >> >>]

(***************************************************************************)
(* The platform (malevich_coretools get_pipeline / create_pipeline)        *)
(***************************************************************************)
NoBody == [pipelineId |-> None, processors |-> << >>, results |-> << >>]

Stored(store, id) == { r \in store : r.pipelineId = id }

\* get_pipeline(id) without a transport failure
GetPipeline(store, id) ==
    IF Stored(store, id) # {}
    THEN [status |-> "ok", body |-> CHOOSE r \in Stored(store, id) : TRUE]
    ELSE [status |-> "not_found", body |-> NoBody]

\* a call that fails for a transport / authorization reason
Failure == [status |-> "error", body |-> NoBody]

\* output collections as the platform may regenerate them on registration
Renamed(results) ==
    [i \in 1..Len(results) |->
        << results[i][1],
           << [name |-> << << "norm", results[i][2][1].name[1] >> >>
                          \o Tail(results[i][2][1].name)] >> >>]

\* what the platform may store for create_pipeline(id, processors, results)
Registrations(id, procs, results) ==
    { [pipelineId |-> id, processors |-> procs, results |-> rs] :
        rs \in {results, Renamed(results)} }

(***************************************************************************)
(* Pipeline.get and Pipeline.upsert                                        *)
(***************************************************************************)
\* Pipeline.get: any exception of get_pipeline becomes PipelineNotFoundError
PipelineGet(resp) ==
    IF resp.status = "ok"
    THEN [ err |-> "none",
           value |-> Pipeline(resp.body.pipelineId, resp.body.processors,
                              resp.body.results) ]
    ELSE [ err |-> "PipelineNotFoundError", value |-> Pipeline(None, << >>, None) ]

\* (mutant) an upsert that returns its local Pipeline once it has created it
ReturnLocalAfterCreate(u) == [u EXCEPT !.pc = "done", !.result = u.local]

\* upsert after create_pipeline returned: go on to the second cls.get
AfterCreate(u) == [u EXCEPT !.pc = "fetch2"]

(***************************************************************************)
(* Operation (core_api/operation.py) and PipelineOperations                *)
(***************************************************************************)
\* Operation(id, pipeline_id=None)
Operation(id, pipeline_id) == [id |-> id, pipeline_id |-> pipeline_id]

NoOperation == Operation(None, None)

\* get_run_main_pipeline_cfg(operation_id): the pipeline the platform holds
\* the operation for, or an exception
CfgInfo(pipelineId) == [status |-> "ok", pipelineId |-> pipelineId]
CfgFailure == [status |-> "error", pipelineId |-> None]

\* (mutant) a bind that takes the expected identity whatever the platform said
BindPipelineUnchecked(op, pipeline_id, verify, info) ==
    [op |-> [op EXCEPT !.pipeline_id = pipeline_id], err |-> "none"]

\* Operation.bind_pipeline(pipeline_id, verify): [op, err].  The ValueError
\* of the mismatch is raised inside the try block, caught with every other
\* exception and raised again as a ValueError.
BindPipeline(op, pipeline_id, verify, info) ==
    IF verify /\ info.status # "ok"
    THEN [op |-> op, err |-> "ValueError"]
    ELSE IF verify /\ info.pipelineId # pipeline_id
    THEN [op |-> op, err |-> "ValueError"]
    ELSE [op |-> [op EXCEPT !.pipeline_id = pipeline_id], err |-> "none"]

\* Run(id, operation_id, pipeline_id)
Run(id, operation_id, pipeline_id) ==
    [id |-> id, operation_id |-> operation_id, pipeline_id |-> pipeline_id]

NoRun == Run(None, None, None)

(***************************************************************************)
(* Flow.upload_collections                                                 *)
(***************************************************************************)
RECURSIVE ConcatAll(_)
ConcatAll(ss) == IF ss = << >> THEN << >> ELSE Head(ss) \o ConcatAll(Tail(ss))

\* the FlowGroups in the order the two nested loops visit them
AllGroups(fl) ==
    ConcatAll([i \in 1..Len(fl.groups) |->
                 [j \in 1..Len(fl.groups[i][2]) |-> fl.groups[i][2][j][2]]])

\* the id create_doc returns for the k-th document the platform stores
DocId(k) == << "d" >> \o IntToStr(k)

\* the documents created for the first n groups
CreatedDocs(gs, n) == [k \in 1..n |-> [id |-> DocId(k), data |-> gs[k].data]]

RECURSIVE CollectInto(_, _, _)
\* collections[group.collection_name] = '#' + doc_id, group after group
CollectInto(collections, gs, docs) ==
    IF gs = << >> THEN collections
    ELSE CollectInto(DictPut(collections, Head(gs).collection_name,
                             << "#" >> \o Head(docs).id),
                     Tail(gs), Tail(docs))

\* Flow.upload_collections once every create_doc returned
UploadCollections(fl) ==
    CollectInto(<< >>, AllGroups(fl), CreatedDocs(AllGroups(fl), Len(AllGroups(fl))))

(***************************************************************************)
(* Function references (utils.py)                                          *)
(***************************************************************************)
Digits == {"0", "1", "2", "3", "4", "5", "6", "7", "8", "9"}
Lower == {"a", "b", "c", "d", "e", "f", "g", "h", "i", "j", "k", "l", "m",
          "n", "o", "p", "q", "r", "s", "t", "u", "v", "w", "x", "y", "z"}
Upper == {"A", "B", "C", "D", "E", "F", "G", "H", "I", "J", "K", "L", "M",
          "N", "O", "P", "Q", "R", "S", "T", "U", "V", "W", "X", "Y", "Z"}
\* the character classes [a-f0-9-], [a-zA-Z_] and [a-zA-Z0-9_]
HexDash == {"a", "b", "c", "d", "e", "f", "-"} \cup Digits
HexOnly == {"a", "b", "c", "d", "e", "f"} \cup Digits
NameStart == Lower \cup Upper \cup {"_"}
NameChar == NameStart \cup Digits

\* s[a..]: the rest of a string from position a
From(s, a) == SubSeq(s, a, Len(s))
\* the first position >= a of character c in s, 0 when there is none
Find(s, c, a) ==
    IF \E i \in a..Len(s) : s[i] = c
    THEN CHOOSE i \in a..Len(s) : s[i] = c /\ \A j \in a..(i - 1) : s[j] # c
    ELSE 0
\* str.startswith
StartsWith(s, p) == Len(p) <= Len(s) /\ SubSeq(s, 1, Len(p)) = p
AllIn(s, class) == \A i \in 1..Len(s) : s[i] \in class

\* FunctionRef(processor_id=..., user=..., token=..., ref=..., tag=..., syncRef=...)
FunctionRef(processor_id, user, token, ref, tag, syncRef) ==
    [processor_id |-> processor_id, user |-> user, token |-> token,
     ref |-> ref, tag |-> tag, syncRef |-> syncRef]

\* a re.match that found nothing
NoMatch == [ok |-> FALSE]

\* ^(?P<function_name>[^:]+):: and what follows it
FunctionName(s) ==
    LET i == Find(s, ":", 1) IN
    IF i > 1 /\ i + 1 <= Len(s) /\ s[i + 1] = ":"
    THEN [ok |-> TRUE, function_name |-> SubSeq(s, 1, i - 1), rest |-> From(s, i + 2)]
    ELSE NoMatch

\* sha256:[a-f0-9]+
IsDigest(t) ==
    /\ StartsWith(t, << "s", "h", "a", "2", "5", "6", ":" >>)
    /\ Len(t) > 7
    /\ AllIn(From(t, 8), HexOnly)

\* (?P<tag>[^@]+)(?:@(?P<digest>sha256:[a-f0-9]+))?$
TagDigest(t) ==
    LET j == Find(t, "@", 1) IN
    IF j = 0
    THEN IF Len(t) >= 1 THEN [ok |-> TRUE, tag |-> t, digest |-> None] ELSE NoMatch
    ELSE IF j > 1 /\ IsDigest(From(t, j + 1))
         THEN [ok |-> TRUE, tag |-> SubSeq(t, 1, j - 1), digest |-> From(t, j + 1)]
         ELSE NoMatch

\* f"{image}:{tag}@{digest}" or f"{image}:{tag}"
RefWithTag(image, td) ==
    IF td.digest # None
    THEN image \o << ":" >> \o td.tag \o << "@" >> \o td.digest
    ELSE image \o << ":" >> \o td.tag

\* the pattern with ref=$uuid
MatchPinned(s) ==
    LET n == FunctionName(s) IN
    IF n.ok /\ Len(n.rest) >= 2 /\ n.rest[1] = "$" /\ AllIn(From(n.rest, 2), HexDash)
    THEN [ok |-> TRUE,
          ref |-> FunctionRef(n.function_name, None, None,
                              << "$" >> \o From(n.rest, 2), << >>, TRUE)]
    ELSE NoMatch

\* the pattern user:password@registry/image:tag; image_path is the lazy
\* .+?, the shortest that lets the rest of the pattern match
MatchRegistry(s) ==
    LET n == FunctionName(s) IN
    IF ~n.ok THEN NoMatch
    ELSE LET r == n.rest
             c == Find(r, ":", 1)
             a == IF c > 1 THEN Find(r, "@", c + 1) ELSE 0
             sl == IF a > c + 1 THEN Find(r, "/", a + 1) ELSE 0
             Ends == { e \in (sl + 1)..(Len(r) - 1) :
                         r[e + 1] = ":" /\ TagDigest(From(r, e + 2)).ok }
         IN IF c > 1 /\ a > c + 1 /\ sl > a + 1 /\ Ends # {}
            THEN LET e == CHOOSE x \in Ends : \A y \in Ends : x <= y
                     registry == SubSeq(r, a + 1, sl - 1)
                     image_path == SubSeq(r, sl + 1, e)
                 IN [ok |-> TRUE,
                     ref |-> FunctionRef(n.function_name,
                                         SubSeq(r, 1, c - 1),
                                         SubSeq(r, c + 1, a - 1),
                                         RefWithTag(registry \o << "/" >> \o image_path,
                                                    TagDigest(From(r, e + 2))),
                                         << >>, TRUE)]
            ELSE NoMatch

\* the pattern user:password/image:tag (legacy Docker Hub format)
MatchLegacy(s) ==
    LET n == FunctionName(s) IN
    IF ~n.ok THEN NoMatch
    ELSE LET r == n.rest
             c == Find(r, ":", 1)
             sl == IF c > 1 THEN Find(r, "/", c + 1) ELSE 0
             e == IF sl > c + 1 THEN Find(r, ":", sl + 1) ELSE 0
         IN IF c > 1 /\ sl > c + 1 /\ e > sl + 1 /\ TagDigest(From(r, e + 1)).ok
            THEN [ok |-> TRUE,
                  ref |-> FunctionRef(n.function_name,
                                      SubSeq(r, 1, c - 1),
                                      SubSeq(r, c + 1, sl - 1),
                                      RefWithTag(SubSeq(r, sl + 1, e - 1),
                                                 TagDigest(From(r, e + 1))),
                                      << >>, TRUE)]
            ELSE NoMatch

\* the pattern image_ref:tag@digest without user:password
MatchImage(s) ==
    LET n == FunctionName(s) IN
    IF ~n.ok THEN NoMatch
    ELSE LET r == n.rest
             e == Find(r, ":", 1)
         IN IF e > 1 /\ TagDigest(From(r, e + 1)).ok
            THEN [ok |-> TRUE,
                  ref |-> FunctionRef(n.function_name, None, None,
                                      RefWithTag(SubSeq(r, 1, e - 1),
                                                 TagDigest(From(r, e + 1))),
                                      << >>, TRUE)]
            ELSE NoMatch

\* (mutant) a bare name parsed as a reference to synchronise
MatchNameSynced(s) ==
    IF Len(s) >= 1 /\ s[1] \in NameStart /\ AllIn(From(s, 2), NameChar)
    THEN [ok |-> TRUE, ref |-> FunctionRef(s, None, None, << >>, << >>, TRUE)]
    ELSE NoMatch

\* the pattern without :: (just a function name)
MatchName(s) ==
    IF Len(s) >= 1 /\ s[1] \in NameStart /\ AllIn(From(s, 2), NameChar)
    THEN [ok |-> TRUE, ref |-> FunctionRef(s, None, None, << >>, << >>, FALSE)]
    ELSE NoMatch

\* (mutant) the patterns tried with the one for an image without
\* credentials before those with credentials
MatchFormsImageFirst(s) ==
    IF MatchPinned(s).ok THEN MatchPinned(s)
    ELSE IF MatchImage(s).ok THEN MatchImage(s)
    ELSE IF MatchRegistry(s).ok THEN MatchRegistry(s)
    ELSE IF MatchLegacy(s).ok THEN MatchLegacy(s)
    ELSE MatchName(s)

\* parse_fn up to its raise: each pattern is tried while function_ref is
\* still None
MatchForms(s) ==
    IF MatchPinned(s).ok THEN MatchPinned(s)
    ELSE IF MatchRegistry(s).ok THEN MatchRegistry(s)
    ELSE IF MatchLegacy(s).ok THEN MatchLegacy(s)
    ELSE IF MatchImage(s).ok THEN MatchImage(s)
    ELSE MatchName(s)


(***************************************************************************)
(* The user's credential store (usp/credstore.py)                          *)
(***************************************************************************)
\* ImageCredentials(ref=..., user=..., token=...) and the dict stored for it
ImageCredentials(ref, user, token) ==
    [type |-> "image", ref |-> ref, user |-> user, token |-> token]
\* CoreCredentials(user=..., password=..., host=...) and the dict stored for it
CoreCredentials(user, password, host) ==
    [type |-> "core", user |-> user, password |-> password, host |-> host]

\* UserCredentialsStore.get_all_image_credentials over self._credentials
GetAllImageCredentials(credentials) ==
    SelectSeq(credentials, LAMBDA cred : cred.type = "image")

\* best_match = None
NoBestMatch == [type |-> "none"]

RECURSIVE FirstPrefix(_, _, _, _)
\* (mutant) a loop that keeps the first stored record that is a prefix
FirstPrefix(creds, ref, best_match, longest_prefix_len) ==
    IF creds = << >> THEN best_match
    ELSE LET cred == Head(creds) IN
         IF StartsWith(ref, cred.ref) /\ best_match = NoBestMatch
         THEN FirstPrefix(Tail(creds), ref, cred, Len(cred.ref))
         ELSE FirstPrefix(Tail(creds), ref, best_match, longest_prefix_len)

RECURSIVE LongestPrefix(_, _, _, _)
\* the loop of parse_fn over all_image_creds: the best_match it ends with
LongestPrefix(creds, ref, best_match, longest_prefix_len) ==
    IF creds = << >> THEN best_match
    ELSE LET cred == Head(creds) IN
         IF StartsWith(ref, cred.ref) /\ Len(cred.ref) > longest_prefix_len
         THEN LongestPrefix(Tail(creds), ref, cred, Len(cred.ref))
         ELSE LongestPrefix(Tail(creds), ref, best_match, longest_prefix_len)

\* parse_fn after its patterns: credentials from the store when none are
\* embedded; an exception of the store (unavailable) is swallowed
ResolveCredentials(function_ref, credentials, unavailable) ==
    IF function_ref.user = None \/ function_ref.token = None
    THEN IF unavailable THEN function_ref
         ELSE LET best_match == LongestPrefix(GetAllImageCredentials(credentials),
                                              function_ref.ref, NoBestMatch, 0)
              IN IF best_match # NoBestMatch
                 THEN [function_ref EXCEPT !.user = best_match.user,
                                           !.token = best_match.token]
                 ELSE function_ref
    ELSE function_ref

\* whether parse_fn constructs the store for this reference
OpensStore(function_ref) == function_ref.user = None \/ function_ref.token = None

\* (mutant) a parse_fn that opens the store before it tries the patterns
\* and returns a bare reference to what matches no pattern
ParseFnLenient(fun_ref, credentials, unavailable) ==
    LET m == MatchForms(fun_ref) IN
    IF ~m.ok
    THEN [err |-> "none", msg |-> << >>, opened |-> 1,
          value |-> FunctionRef(fun_ref, None, None, << >>, << >>, FALSE)]
    ELSE [err |-> "none", msg |-> << >>,
          value |-> ResolveCredentials(m.ref, credentials, unavailable),
          opened |-> 1]

\* parse_fn(fun_ref) with the store the user has: [err, msg, value] and the
\* number of times the store was opened
ParseFn(fun_ref, credentials, unavailable) ==
    LET m == MatchForms(fun_ref) IN
    IF ~m.ok
    THEN [err |-> "ValueError", msg |-> << "Invalid function reference: " >> \o fun_ref,
          value |-> None, opened |-> 0]
    ELSE [err |-> "none", msg |-> << >>,
          value |-> ResolveCredentials(m.ref, credentials, unavailable),
          opened |-> IF OpensStore(m.ref) THEN 1 ELSE 0]

\* reference strings: a name, a separator, credentials, a registry host, an
\* image path and a tag, each possibly missing or malformed
NameParts == { << "f", "o", "o" >>, << "a", " ", "b" >>, << >> }
SepParts == { << >>, << ":", ":" >>, << ":" >> }
CredParts == { << >>, << "u", "s", "e", "r", ":", "p", "w", "@" >>, << "u", "s", "e", "r", ":", "p", "w", "/" >>, << "$" >> }
HostParts == { << >>, << "g", "h", "c", "r", ".", "i", "o", "/" >> }
PathParts == { << >>, << "o", "r", "g", "/", "i", "m", "g" >>, << "a", "b", "c", "-", "1", "2", "3" >>, << "x", "y", "z" >> }
TagParts == { << >>, << ":", "v", "1" >>, << ":", "v", "1", "@", "s", "h", "a", "2", "5", "6", ":", "a", "b", "1", "2" >>, << ":", "v", "1", "@", "l", "a", "t", "e", "s", "t" >> }
S_foo == << "f", "o", "o" >>
S_pinned == << "f", "o", "o", ":", ":", "$", "a", "b", "c", "-", "1", "2", "3" >>
S_embedded == << "f", "o", "o", ":", ":", "u", "s", "e", "r", ":", "p", "w", "@", "g", "h", "c", "r", ".", "i", "o", "/", "o", "r", "g", "/", "i", "m", "g", ":", "v", "1" >>
S_plain == << "f", "o", "o", ":", ":", "g", "h", "c", "r", ".", "i", "o", "/", "o", "r", "g", "/", "i", "m", "g", ":", "v", "1" >>
S_invalid == << "n", "o", "t", " ", "a", " ", "v", "a", "l", "i", "d", " ", "r", "e", "f", "!", "!" >>
FunRefs ==
    { n \o s \o c \o h \o p \o t :
        n \in NameParts, s \in SepParts, c \in CredParts,
        h \in HostParts, p \in PathParts, t \in TagParts } \cup {S_invalid}

\* records of the store
S_ghcr == << "g", "h", "c", "r", ".", "i", "o" >>
S_ghcr_org == << "g", "h", "c", "r", ".", "i", "o", "/", "o", "r", "g" >>
S_docker == << "d", "o", "c", "k", "e", "r", ".", "i", "o" >>
StoredRecords ==
    { ImageCredentials(S_ghcr, << "u", "1" >>, << "t", "1" >>),
      ImageCredentials(S_ghcr_org, << "u", "2" >>, << "t", "2" >>),
      ImageCredentials(S_docker, << "u", "3" >>, << "t", "3" >>),
      ImageCredentials(S_ghcr, << "u", "4" >>, << "t", "4" >>),
      CoreCredentials(<< "a", "l", "i", "c", "e" >>, << "s", "e", "c", "r", "e", "t" >>, << "h", "t", "t", "p", "s", ":", "/", "/", "c", "o", "r", "e" >>) }
MaxRecords == 2
\* the lists credentials.json may hold: up to MaxRecords different records
Stores ==
    UNION { { c \in [1..n -> StoredRecords] : \A i, j \in 1..n : c[i] = c[j] => i = j } :
              n \in 0..MaxRecords }


(***************************************************************************)
(* Lookups in the credential store (usp/credstore.py)                      *)
(***************************************************************************)
\* os.getenv: None when the variable is not set
Unset == None
\* the default host of CoreCredentials
DefaultHost == << "h", "t", "t", "p", "s", ":", "/", "/", "c", "o", "r", "e", ".", "m", "t", "p", ".", "g", "r", "o", "u", "p" >>
\* credentials not found: the lookup returns None
NotFound == [type |-> "none"]

RECURSIVE FirstStored(_, _, _)
\* the loop over self._credentials: the first record of the type whose
\* field (user or ref) is the one asked for
FirstStored(credentials, type, asked) ==
    IF credentials = << >> THEN NotFound
    ELSE LET cred == Head(credentials) IN
         IF cred.type = type /\ (IF type = "core" THEN cred.user ELSE cred.ref) = asked
         THEN cred
         ELSE FirstStored(Tail(credentials), type, asked)

\* (mutant) a lookup that prefers the stored record to the environment
GetCoreCredentialsStoredFirst(env, credentials, username) ==
    IF FirstStored(credentials, "core", username) # NotFound
    THEN FirstStored(credentials, "core", username)
    ELSE IF Truthy(env.MALEVICH_USER) /\ Truthy(env.MALEVICH_PASSWORD)
    THEN CoreCredentials(env.MALEVICH_USER, env.MALEVICH_PASSWORD,
                         IF Truthy(env.MALEVICH_HOST) THEN env.MALEVICH_HOST
                         ELSE DefaultHost)
    ELSE NotFound

\* UserCredentialsStore.get_core_credentials(username)
GetCoreCredentials(env, credentials, username) ==
    IF Truthy(env.MALEVICH_USER) /\ Truthy(env.MALEVICH_PASSWORD)
    THEN CoreCredentials(env.MALEVICH_USER, env.MALEVICH_PASSWORD,
                         IF Truthy(env.MALEVICH_HOST) THEN env.MALEVICH_HOST
                         ELSE DefaultHost)
    ELSE FirstStored(credentials, "core", username)

\* UserCredentialsStore.get_image_credentials(ref)
GetImageCredentials(env, credentials, ref) ==
    IF Truthy(env.MALEVICH_IMAGE_USER) /\ Truthy(env.MALEVICH_IMAGE_TOKEN)
    THEN ImageCredentials(ref, env.MALEVICH_IMAGE_USER, env.MALEVICH_IMAGE_TOKEN)
    ELSE FirstStored(credentials, "image", ref)

\* what a variable of the environment may be: not set, empty, set
EnvValues(value) == {Unset, << >>, value}
Environments ==
    [ MALEVICH_USER : EnvValues(<< "e", "n", "v", "u", "s", "e", "r" >>),
      MALEVICH_PASSWORD : EnvValues(<< "e", "n", "v", "p", "a", "s", "s" >>),
      MALEVICH_HOST : EnvValues(<< "h", "t", "t", "p", "s", ":", "/", "/", "e", "n", "v" >>),
      MALEVICH_IMAGE_USER : EnvValues(<< "e", "n", "v", "i", "m", "g" >>),
      MALEVICH_IMAGE_TOKEN : EnvValues(<< "e", "n", "v", "t", "o", "k" >>) ]

S_alice == << "a", "l", "i", "c", "e" >>
S_bob == << "b", "o", "b" >>
S_carol == << "c", "a", "r", "o", "l" >>
LookupRecords ==
    { CoreCredentials(S_alice, << "s", "e", "c", "r", "e", "t" >>, << "h", "t", "t", "p", "s", ":", "/", "/", "c", "o", "r", "e" >>),
      CoreCredentials(S_bob, << "h", "u", "n", "t", "e", "r", "2" >>, DefaultHost),
      ImageCredentials(S_ghcr, << "u", "1" >>, << "t", "1" >>),
      ImageCredentials(S_ghcr_org, << "u", "2" >>, << "t", "2" >>) }
\* the lists credentials.json may hold for a lookup
LookupStores ==
    UNION { { c \in [1..n -> LookupRecords] : \A i, j \in 1..n : c[i] = c[j] => i = j } :
              n \in 0..MaxRecords }
Usernames == {S_alice, S_bob, S_carol}
RegistryRefs == {S_ghcr, S_ghcr_org, S_docker}


(***************************************************************************)
(* Changes to the credential store and its listing (usp/credstore.py,      *)
(* cli/commands/creds.py).  Every call ends with _save_credentials, and a  *)
(* store made later loads what was saved: the list is the state.           *)
(***************************************************************************)
\* [c for c in self._credentials if c.get("type") != "core"]
WithoutCore(credentials) ==
    SelectSeq(credentials, LAMBDA c : c.type # "core")

\* [c for c in self._credentials
\*    if not (c.get("type") == "image" and c.get("ref") == ref)]
WithoutImage(credentials, ref) ==
    SelectSeq(credentials, LAMBDA c : ~(c.type = "image" /\ c.ref = ref))

\* (mutant) add_core_credentials that removes only the records of the same user
AddCoreCredentialsSameUser(credentials, user, password, host, replace) ==
    Append(IF replace
           THEN SelectSeq(credentials, LAMBDA c : ~(c.type = "core" /\ c.user = user))
           ELSE credentials,
           CoreCredentials(user, password, host))

\* UserCredentialsStore.add_core_credentials: the list it saves
AddCoreCredentials(credentials, user, password, host, replace) ==
    Append(IF replace THEN WithoutCore(credentials) ELSE credentials,
           CoreCredentials(user, password, host))

\* UserCredentialsStore.add_image_credentials: the list it saves
AddImageCredentials(credentials, ref, user, token, replace) ==
    Append(IF replace THEN WithoutImage(credentials, ref) ELSE credentials,
           ImageCredentials(ref, user, token))

\* remove_core_credentials / remove_image_credentials: [list, returned]
RemoveCoreCredentials(credentials) ==
    [ credentials |-> WithoutCore(credentials),
      removed |-> Len(WithoutCore(credentials)) < Len(credentials) ]
RemoveImageCredentials(credentials, ref) ==
    [ credentials |-> WithoutImage(credentials, ref),
      removed |-> Len(WithoutImage(credentials, ref)) < Len(credentials) ]

\* one entry of list_all: nothing for a record of another type
ListEntry(cred) ==
    IF cred.type = "core"
    THEN << [type |-> "core", user |-> cred.user, host |-> cred.host] >>
    ELSE IF cred.type = "image"
    THEN << [type |-> "image", ref |-> cred.ref, user |-> cred.user] >>
    ELSE << >>

\* (mutant) a listing that hands out the stored records
ListAllStored(credentials) == credentials

\* UserCredentialsStore.list_all
RECURSIVE ListAll(_)
ListAll(credentials) ==
    IF credentials = << >> THEN << >>
    ELSE ListEntry(Head(credentials)) \o ListAll(Tail(credentials))

\* malevich-sdk creds add <cred_type> <registry> <login> <password> [--overwrite]:
\* the list saved, and the exit code
CliAdd(credentials, cred_type, registry, login, password, overwrite, host) ==
    IF cred_type = "image"
    THEN IF ~(Truthy(registry) /\ Truthy(login) /\ Truthy(password))
         THEN [credentials |-> credentials, exit |-> 1]
         ELSE [credentials |-> AddImageCredentials(credentials, registry, login,
                                                   password, overwrite),
               exit |-> 0]
    ELSE IF cred_type = "core"
    THEN IF ~(Truthy(registry) /\ Truthy(login))
         THEN [credentials |-> credentials, exit |-> 1]
         ELSE [credentials |-> AddCoreCredentials(credentials, registry, login,
                                                  host, overwrite),
               exit |-> 0]
    ELSE [credentials |-> credentials, exit |-> 1]

\* the logins given to the store, and the password or token of each
StoreUsers == {S_alice, S_bob}
SecretOf(user) == user \o << "-", "p", "w" >>
StoreRefs == {S_ghcr, S_ghcr_org}
MaxStoreOps == 4


(***************************************************************************)
(* Scoped overrides of the global Config (core_api/connection.py,          *)
(* core_api/credentials.py)                                                *)
(***************************************************************************)
EndsWith(s, p) == Len(p) <= Len(s) /\ SubSeq(s, Len(s) - Len(p) + 1, Len(s)) = p

\* with_connection up to its yield: [config, old]
WithConnection(config, url) ==
    LET u == IF ~EndsWith(url, << "/" >>) THEN url \o << "/" >> ELSE url
    IN [ err |-> "none",
         config |-> [config EXCEPT !.HOST_PORT = u],
         old |-> << config.HOST_PORT >> ]

\* with_credentials up to its yield
WithCredentials(config, auth) ==
    [ err |-> "none",
      config |-> [config EXCEPT !.CORE_USERNAME = auth[1], !.CORE_PASSWORD = auth[2]],
      old |-> << config.CORE_USERNAME, config.CORE_PASSWORD >> ]

\* with_user up to its yield, or the error it raises before it changes anything
WithUser(config, env, credentials, username) ==
    LET core_creds == GetCoreCredentials(env, credentials, username) IN
    IF ~Truthy(config.HOST_PORT)
    THEN [err |-> "RuntimeError", config |-> config, old |-> << >>]
    ELSE IF core_creds = NotFound
    THEN [err |-> "RuntimeError", config |-> config, old |-> << >>]
    ELSE [ err |-> "none",
           config |-> [config EXCEPT !.CORE_USERNAME = core_creds.user,
                                     !.CORE_PASSWORD = core_creds.password],
           old |-> << config.CORE_USERNAME, config.CORE_PASSWORD >> ]

\* (mutant) scopes that restore after the yield, without try / finally
ScopeExitNoFinally(config, kind, old, raised) ==
    IF raised THEN config
    ELSE IF kind = "connection" THEN [config EXCEPT !.HOST_PORT = old[1]]
    ELSE [config EXCEPT !.CORE_USERNAME = old[1], !.CORE_PASSWORD = old[2]]

\* the finally block of a scope, run when the body ends and when it raises
ScopeExit(config, kind, old, raised) ==
    IF kind = "connection" THEN [config EXCEPT !.HOST_PORT = old[1]]
    ELSE [config EXCEPT !.CORE_USERNAME = old[1], !.CORE_PASSWORD = old[2]]

MaxScopes == 3


(***************************************************************************)
(* State                                                                   *)
(***************************************************************************)
VARIABLES
    flows,      \* the Flow objects
    built,      \* per flow, the Pipeline its last build() returned, or None
    ncalls,     \* per flow, the number of builder calls made
    ret,        \* the last startwith / add / addflow call and how it ended
    remote,     \* the pipelines the platform stores
    up,         \* per caller, its Pipeline.upsert call
    faults,     \* platform calls that failed for a transport / authorization reason
    overlap,    \* whether an upsert was started while another was running
    rr,         \* the _run_flow_remote call
    lr,         \* the _run_flow_local call
    obs,        \* a Run object and what its caller read from it
    pf,         \* a parse_fn call
    cs,         \* a lookup in the credential store
    fh,         \* the File objects of a caller and the resources behind them
    rf,         \* a runflow / run call
    sc          \* the global Config and the scoped overrides entered

vars == << flows, built, ncalls, ret, remote, up, faults, overlap, rr, lr, obs,
           pf, cs, fh, rf, sc >>
toolVars == << pf, cs, fh, rf, sc >>
flowVars == << flows, built, ncalls, ret >>
upsertVars == << remote, up, faults, overlap >>
execVars == << rr, lr, obs >>

FlowIds == {1, 2}

MaxCalls == 3
MaxPairCalls == 4
MaxFaults == 1

Names == {S_a, S_b}
ArgNames == {S_g, S_h}

\* the *groups a startwith call is given: none, one, or the same name twice
GroupInputs ==
    { << >>, << Group(S_g, DataV) >>, << Group(S_name, DataV) >>,
      << Group(S_g, DataV), Group(S_g, DataV) >> }

\* no Pipeline held yet
NoPipeline == [id |-> None, processors |-> << >>, result_map |-> None]

Callers == {1, 2}

\* a caller that has not called upsert
NoUpsert ==
    [ pc      |-> "idle",
      local   |-> NoPipeline,     \* cls(processors=processors)
      first   |-> "none",         \* how the initial get_pipeline ended
      creates |-> 0,              \* create_pipeline calls issued
      last    |-> [kind |-> "none", resp |-> [status |-> "none", body |-> NoBody]],
      result  |-> NoPipeline,     \* the Pipeline returned
      err     |-> "none" ]        \* the exception raised

\* builder calls made so far, over all flows
CallsMade == ncalls[1] + ncalls[2]

NoCall == [flow |-> 0, op |-> "none", node |-> None, arg |-> None, err |-> "none"]

\* _run_flow_remote not called yet
NoRemoteRun ==
    [ pc          |-> "idle",
      flow        |-> NewFlow,       \* the Flow it is given
      active      |-> {},            \* operations the platform lists as active
      pipeline    |-> NoPipeline,    \* Pipeline.upsert(flow.build())
      op          |-> NoOperation,   \* active_operation
      bound       |-> None,          \* the pipeline the platform holds the operation for
      info        |-> [status |-> "none", pipelineId |-> None],   \* what bind_pipeline was told
      cfg_pipeline_id |-> None,      \* pipeline_cfg.pipelineId
      calls       |-> << >>,         \* the platform calls issued, in order
      docs        |-> << >>,         \* the documents create_doc stored
      collections |-> << >>,         \* flow.upload_collections()
      submitted   |-> << >>,         \* the collections of the Cfg the run was created with
      run         |-> NoRun,         \* the Run returned
      err         |-> "none" ]       \* the exception raised

\* _run_flow_local not called yet
NoLocalRun ==
    [ pc           |-> "idle",
      flow         |-> NewFlow,      \* the Flow it is given
      pipeline     |-> NoPipeline,   \* flow_pipeline = flow.build()
      inside       |-> FALSE,        \* whether a call of the executor is running
      operation_id |-> None,         \* what runner.prepare returned
      run_id       |-> None,         \* str(uuid.uuid4())
      events       |-> << >>,        \* the executor calls, as they start and end
      result       |-> [id |-> None, operation_id |-> None, pipeline_id |-> None,
                        pipeline |-> NoPipeline],   \* the LocalRun returned
      named        |-> [name |-> None, handle |-> None, err |-> "none",
                        docs |-> << >>],            \* the last results[name].docs()
      err          |-> "none" ]

\* no Run observed yet
NoObservation ==
    [ pc      |-> "idle",
      stored  |-> NoBody,            \* the pipeline of the run, as the platform stores it
      run     |-> NoRun,             \* the Run object
      content |-> "empty",           \* what the collections of the run hold
      held    |-> FALSE,             \* whether the caller holds a RunResults
      holder  |-> [cache |-> None],  \* the RunResults the caller holds
      made    |-> 0,                 \* RunResults objects made
      fetches |-> 0,                 \* Pipeline.get calls made to resolve the terminal
      resolved |-> FALSE,            \* whether an unnamed access resolved the terminal
      unnamed |-> [kind |-> "none", name |-> None, err |-> "none", msg |-> "",
                   docs |-> << >>],  \* the last unnamed access and its outcome
      named   |-> [kind |-> "none", name |-> None, err |-> "none", msg |-> "",
                   docs |-> << >>],  \* the last named access and its outcome
      answer  |-> "none",            \* the last answer of get_run_status
      status  |-> [value |-> "none", err |-> "none", msg |-> << >>] ]

\* no parse_fn call, no lookup, no File object
NoEnvironment ==
    [ MALEVICH_USER |-> Unset, MALEVICH_PASSWORD |-> Unset, MALEVICH_HOST |-> Unset,
      MALEVICH_IMAGE_USER |-> Unset, MALEVICH_IMAGE_TOKEN |-> Unset ]
NoParse == [pc |-> "idle", input |-> << >>, credentials |-> << >>,
            env |-> NoEnvironment,
            unavailable |-> FALSE,
            out |-> [err |-> "none", msg |-> << >>, value |-> None, opened |-> 0]]
\* before: self._credentials as the last call found it; ops: calls made
NoLookup == [pc |-> "idle", env |-> << >>, credentials |-> << >>, call |-> "none",
             asked |-> << >>, out |-> [type |-> "none"], before |-> << >>, ops |-> 0]
MaxFiles == 2
MaxOpens == 2
FileIds == 1..MaxFiles
\* a File object not made yet: whether it exists and is referenced, whether
\* its temporary file is on disk, whether the descriptor of mkstemp is open,
\* whether a with-block of open() is running, the handles open() has open,
\* and the number of open() calls made
NoFile == [obj |-> "none", temp |-> FALSE, fd |-> FALSE, inside |-> FALSE,
           fps |-> 0, opens |-> 0]
NoFiles == [f \in FileIds |-> NoFile]

\* runflow not called yet
NoRunflow ==
    [ pc      |-> "idle",
      op      |-> "none",     \* "runflow" or "run"
      passed  |-> {},         \* the value given for local, if one was given
      backend |-> "none",     \* the function the call was handed to
      returns |-> "none",     \* what the call returned
      err     |-> "none" ]    \* the exception raised

\* Config of malevich_coretools with nothing set
NoConfig == [HOST_PORT |-> None, CORE_USERNAME |-> None, CORE_PASSWORD |-> None]

\* a process that has entered no scope
NoScopes ==
    [ config   |-> NoConfig,      \* Config.HOST_PORT, CORE_USERNAME, CORE_PASSWORD
      base     |-> NoConfig,      \* Config as the process found it
      env      |-> NoEnvironment,
      credentials |-> << >>,      \* credentials.json
      stack    |-> << >>,         \* the scopes entered and not left, innermost last
      raising  |-> FALSE,         \* whether an exception is travelling outwards
      last     |-> "none",        \* how the last step ended
      restored |-> NoConfig,      \* Config as the scope left last had found it
      entered  |-> 0,             \* scopes entered so far
      deepest  |-> 0,             \* the deepest nesting reached
      raised   |-> 0 ]            \* scopes left by an exception

\* the flows, the platform and the executions before any call
InitRuns ==
    /\ flows = [i \in FlowIds |-> NewFlow]
    /\ built = [i \in FlowIds |-> NoPipeline]
    /\ ncalls = [i \in FlowIds |-> 0]
    /\ ret = NoCall
    /\ remote = {}
    /\ up = [c \in Callers |-> NoUpsert]
    /\ faults = 0
    /\ overlap = FALSE
    /\ rr = NoRemoteRun
    /\ lr = NoLocalRun
    /\ obs = NoObservation
    /\ rf = NoRunflow

Init ==
    /\ InitRuns
    /\ pf = NoParse
    /\ cs = NoLookup
    /\ fh = NoFiles
    /\ sc = NoScopes

DoStartWith(i, maxc, names, groupss, fns, cfgs, datas) ==
    /\ CallsMade < maxc
    /\ \E name \in names, groups \in groupss, fn \in fns, cfg \in cfgs, data \in datas :
         LET r == StartWith(flows[i], name, groups, fn, cfg, data)
         IN /\ flows' = [flows EXCEPT ![i] = r.flow]
            /\ ret' = [flow |-> i, op |-> "startwith", node |-> name, arg |-> None,
                       err |-> r.err]
    /\ ncalls' = [ncalls EXCEPT ![i] = @ + 1]
    /\ UNCHANGED << built, upsertVars, execVars, toolVars >>

DoAdd(i, maxc, names, fns, cfgs) ==
    /\ CallsMade < maxc
    /\ \E name \in names, fn \in fns, cfg \in cfgs :
         LET r == Add(flows[i], name, fn, cfg)
         IN /\ flows' = [flows EXCEPT ![i] = r.flow]
            /\ ret' = [flow |-> i, op |-> "add", node |-> name, arg |-> None,
                       err |-> r.err]
    /\ ncalls' = [ncalls EXCEPT ![i] = @ + 1]
    /\ UNCHANGED << built, upsertVars, execVars, toolVars >>

DoAddFlow(i, maxc, argnames) ==
    /\ CallsMade < maxc
    /\ \E from_ \in IssuedRefs(flows[i]), in_ \in IssuedRefs(flows[i]), to \in argnames :
         LET r == AddFlow(flows[i], from_, to, in_)
         IN /\ flows' = [flows EXCEPT ![i] = r.flow]
            /\ ret' = [flow |-> i, op |-> "addflow", node |-> in_, arg |-> to,
                       err |-> r.err]
    /\ ncalls' = [ncalls EXCEPT ![i] = @ + 1]
    /\ UNCHANGED << built, upsertVars, execVars, toolVars >>

DoBuild(i) ==
    /\ built' = [built EXCEPT ![i] = Build(flows[i])]
    /\ UNCHANGED << flows, ncalls, ret, upsertVars, execVars, toolVars >>

\* one Flow driven through its whole interface
NextFlow ==
    \/ DoStartWith(1, MaxCalls, Names, GroupInputs, {Fn1}, {None}, {DataEmpty, DataV})
    \/ DoAdd(1, MaxCalls, Names, Fns, {None, CfgK})
    \/ DoAddFlow(1, MaxCalls, ArgNames)

SpecFlow == Init /\ [][NextFlow]_vars

\* two callers, each building a Flow of its own and ending with build()
NextPair ==
    \E i \in FlowIds :
        \/ /\ built[i].id = None
           /\ \/ DoStartWith(i, MaxPairCalls, Names, {<< Group(S_g, DataV) >>}, {Fn1}, {CfgEmpty, CfgK}, {None})
              \/ DoAdd(i, MaxPairCalls, Names, Fns, {None})
              \/ DoAddFlow(i, MaxPairCalls, {S_h})
        \/ DoBuild(i)

SpecPair == Init /\ [][NextPair]_vars

MaxFrozenCalls == 3

\* one caller that goes on calling the builder after build()
NextFrozen ==
    \/ DoStartWith(1, MaxFrozenCalls, Names, {<< Group(S_g, DataV) >>}, {Fn1}, {None, CfgK}, {None})
    \/ DoAdd(1, MaxFrozenCalls, Names, Fns, {None})
    \/ DoAddFlow(1, MaxFrozenCalls, {S_h})
    \/ DoBuild(1)

SpecFrozen == Init /\ [][NextFrozen]_vars


(***************************************************************************)
(* Upsert of a graph by two callers against one platform                   *)
(***************************************************************************)
\* processors of flows built with the builder: one node, and two nodes with
\* the first bound into the second
Graph1 == StartWith(NewFlow, S_a, << >>, Fn1, None, DataV).flow.procs
Graph2 ==
    AddFlow(Add(StartWith(NewFlow, S_a, << >>, Fn1, None, None).flow,
                S_b, Fn2, CfgK).flow,
            S_a, S_h, S_b).flow.procs
SampleGraphs == {Graph1, Graph2}

Running(u) == u.pc \in {"fetch1", "create", "fetch2"}

\* what get_pipeline may answer now: the platform's answer or a failure
GetAnswers(id) ==
    {GetPipeline(remote, id)} \cup (IF faults < MaxFaults THEN {Failure} ELSE {})

CountFault(resp) ==
    faults' = IF resp.status = "error" THEN faults + 1 ELSE faults

\* upsert, line 98: pipeline = cls(processors=processors)
UpsertCall(c) ==
    /\ up[c].pc = "idle"
    /\ \E g \in SampleGraphs :
         up' = [up EXCEPT ![c] = [@ EXCEPT !.pc = "fetch1",
                                           !.local = Pipeline(None, g, None)]]
    /\ overlap' = (overlap \/ \E d \in Callers \ {c} : Running(up[d]))
    /\ UNCHANGED << remote, faults, flowVars, execVars, toolVars >>

\* upsert, lines 99-101: try: return cls.get(pipeline.id)
\*                        except PipelineNotFoundError: ...
UpsertFetch(c) ==
    /\ up[c].pc = "fetch1"
    /\ \E resp \in GetAnswers(up[c].local.id) :
         LET r == PipelineGet(resp)
             u == [up[c] EXCEPT !.first = resp.status,
                                !.last = [kind |-> "get", resp |-> resp]]
         IN /\ up' = [up EXCEPT ![c] =
                        IF r.err = "none"
                        THEN [u EXCEPT !.pc = "done", !.result = r.value]
                        ELSE [u EXCEPT !.pc = "create"]]
            /\ CountFault(resp)
    /\ UNCHANGED << remote, overlap, flowVars, execVars, toolVars >>

\* upsert, line 102: create_pipeline(pipeline.id, processors=..., results=...);
\* an exception of create_pipeline leaves upsert
UpsertCreate(c) ==
    /\ up[c].pc = "create"
    /\ LET id == up[c].local.id
           procs == up[c].local.processors
           u == [up[c] EXCEPT !.creates = @ + 1]
       IN \/ \* the platform registers the pipeline (replacing one of that id)
             \E reg \in Registrations(id, procs, LocalResults(procs)) :
               /\ remote' = (remote \ Stored(remote, id)) \cup {reg}
               /\ up' = [up EXCEPT ![c] =
                           AfterCreate([u EXCEPT !.last =
                               [kind |-> "create", resp |-> [status |-> "ok", body |-> reg]]])]
               /\ UNCHANGED faults
          \/ \* the platform answers that the pipeline already exists
             /\ Stored(remote, id) # {}
             /\ up' = [up EXCEPT ![c] =
                         [u EXCEPT !.pc = "failed", !.err = "already_exists",
                                   !.last = [kind |-> "create",
                                             resp |-> [status |-> "already_exists", body |-> NoBody]]]]
             /\ UNCHANGED << remote, faults >>
          \/ \* the call fails for a transport / authorization reason
             /\ faults < MaxFaults
             /\ up' = [up EXCEPT ![c] =
                         [u EXCEPT !.pc = "failed", !.err = "create_failed",
                                   !.last = [kind |-> "create", resp |-> Failure]]]
             /\ faults' = faults + 1
             /\ UNCHANGED remote
    /\ UNCHANGED << overlap, flowVars, execVars, toolVars >>

\* upsert, line 103: return cls.get(pipeline.id)
UpsertRefetch(c) ==
    /\ up[c].pc = "fetch2"
    /\ \E resp \in GetAnswers(up[c].local.id) :
         LET r == PipelineGet(resp)
             u == [up[c] EXCEPT !.last = [kind |-> "get", resp |-> resp]]
         IN /\ up' = [up EXCEPT ![c] =
                        IF r.err = "none"
                        THEN [u EXCEPT !.pc = "done", !.result = r.value]
                        ELSE [u EXCEPT !.pc = "failed", !.err = r.err]]
            /\ CountFault(resp)
    /\ UNCHANGED << remote, overlap, flowVars, execVars, toolVars >>

NextUpsert ==
    \E c \in Callers :
        \/ UpsertCall(c)
        \/ UpsertFetch(c)
        \/ UpsertCreate(c)
        \/ UpsertRefetch(c)

SpecUpsert == Init /\ [][NextUpsert]_vars

(***************************************************************************)
(* _run_flow_remote (core_api/run.py): one remote execution of a flow      *)
(***************************************************************************)
\* flows built with the builder: one default data group; a named and a
\* default group; two nodes with a default group each; no literal data
FlowData1 == StartWith(NewFlow, S_a, << >>, Fn1, None, DataV).flow
FlowGroups2 == StartWith(NewFlow, S_a, << Group(S_g, DataV) >>, Fn1, None, DataV).flow
FlowTwoInputs == StartWith(FlowData1, S_b, << >>, Fn2, None, DataV).flow
FlowChain ==
    AddFlow(Add(StartWith(NewFlow, S_a, << >>, Fn1, None, None).flow,
                S_b, Fn2, CfgK).flow,
            S_a, S_h, S_b).flow
RemoteFlows == {FlowData1, FlowGroups2, FlowTwoInputs, FlowChain}

\* operation ids of the platform, and what it may list as active for a pipeline
OpIds == { << "op1" >>, << "op2" >> }
ActiveLists == { {}, { << "op1" >> } }

\* the identity of some other pipeline of the platform
OtherId(id) == CHOOSE x \in { Build(f).id : f \in RemoteFlows } : x # id

\* a step of the call that ended with an exception
Raised(r, calls, err) ==
    [r EXCEPT !.pc = "failed", !.calls = r.calls \o calls, !.err = err]

\* (mutant) a call that goes on to submit the run after a failed binding
SubmitAnyway(r, calls, err) ==
    [r EXCEPT !.pc = "submit", !.calls = r.calls \o calls, !.err = err]

\* bind_pipeline raised: the exception leaves _run_flow_remote
BindRaised(r, calls, err) == Raised(r, calls, err)

RemoteCall ==
    /\ rr.pc = "idle"
    /\ \E f \in RemoteFlows, a \in ActiveLists :
         rr' = [NoRemoteRun EXCEPT !.pc = "upsert", !.flow = f, !.active = a]
    /\ UNCHANGED << flowVars, upsertVars, lr, obs, toolVars >>

\* line 195: pipeline = Pipeline.upsert(flow.build())
RemoteUpsert ==
    /\ rr.pc = "upsert"
    /\ LET b == Build(rr.flow)
       IN \/ \E stored \in Registrations(b.id, b.processors, LocalResults(b.processors)) :
               rr' = [rr EXCEPT !.pc = "prepare",
                                !.calls = rr.calls \o << "upsert" >>,
                                !.pipeline = PipelineGet([status |-> "ok", body |-> stored]).value]
          \/ rr' = Raised(rr, << "upsert" >>, "PipelineNotFoundError")
    /\ UNCHANGED << flowVars, upsertVars, lr, obs, toolVars >>

\* line 197: active_operation = pipeline.operations.create()
RemotePrepare ==
    /\ rr.pc = "prepare"
    /\ \/ rr' = Raised(rr, << "create_cfg" >>, "Exception")
       \/ rr' = Raised(rr, << "create_cfg", "pipeline_prepare" >>, "Exception")
       \/ \E id \in OpIds \ rr.active, b \in {rr.pipeline.id, OtherId(rr.pipeline.id)} :
            rr' = [rr EXCEPT !.pc = "bind",
                             !.calls = rr.calls \o << "create_cfg", "pipeline_prepare" >>,
                             !.op = Operation(id, None),
                             !.bound = b]
    /\ UNCHANGED << flowVars, upsertVars, lr, obs, toolVars >>

\* line 198: active_operation.bind_pipeline(pipeline.id, verify=True)
RemoteBind ==
    /\ rr.pc = "bind"
    /\ \E info \in {CfgInfo(rr.bound), CfgFailure} :
         LET r == BindPipeline(rr.op, rr.pipeline.id, TRUE, info)
             asked == [rr EXCEPT !.info = info]
         IN rr' = IF r.err = "none"
                  THEN [asked EXCEPT !.pc = "cfg",
                                     !.calls = rr.calls \o << "get_run_main_pipeline_cfg" >>,
                                     !.op = r.op]
                  ELSE BindRaised(asked, << "get_run_main_pipeline_cfg" >>, r.err)
    /\ UNCHANGED << flowVars, upsertVars, lr, obs, toolVars >>

\* lines 202-203: pipeline_id = get_run_main_pipeline_cfg(active_operation.id).pipelineId
RemoteCfg ==
    /\ rr.pc = "cfg"
    /\ \/ rr' = [rr EXCEPT !.pc = "get",
                           !.calls = rr.calls \o << "get_run_main_pipeline_cfg" >>,
                           !.cfg_pipeline_id = rr.bound]
       \/ rr' = Raised(rr, << "get_run_main_pipeline_cfg" >>, "Exception")
    /\ UNCHANGED << flowVars, upsertVars, lr, obs, toolVars >>

\* line 206: prepared_pipeline = Pipeline.get(pipeline_id)
RemoteGet ==
    /\ rr.pc = "get"
    /\ \/ rr' = [rr EXCEPT !.pc = "upload", !.calls = rr.calls \o << "get_pipeline" >>]
       \/ rr' = Raised(rr, << "get_pipeline" >>, "PipelineNotFoundError")
    /\ UNCHANGED << flowVars, upsertVars, lr, obs, toolVars >>

\* line 208: collections = flow.upload_collections()
RemoteUpload ==
    /\ rr.pc = "upload"
    /\ LET gs == AllGroups(rr.flow)
       IN \/ rr' = [rr EXCEPT !.pc = "submit",
                              !.calls = rr.calls \o [k \in 1..Len(gs) |-> "create_doc"],
                              !.docs = CreatedDocs(gs, Len(gs)),
                              !.collections = UploadCollections(rr.flow)]
          \/ \E k \in 1..Len(gs) :
               rr' = [Raised(rr, [j \in 1..k |-> "create_doc"], "Exception")
                        EXCEPT !.docs = CreatedDocs(gs, k - 1)]
    /\ UNCHANGED << flowVars, upsertVars, lr, obs, toolVars >>

\* line 210: run = active_operation.runs.create({}, collections=collections)
RemoteSubmit ==
    /\ rr.pc = "submit"
    /\ \/ rr' = Raised(rr, << "create_cfg" >>, "Exception")
       \/ rr' = Raised(rr, << "create_cfg", "task_run" >>, "Exception")
       \/ rr' = [rr EXCEPT !.pc = "running",
                           !.calls = rr.calls \o << "create_cfg", "task_run" >>,
                           !.submitted = rr.collections,
                           !.run = Run(<< "run1" >>, rr.op.id, rr.op.pipeline_id)]
    /\ UNCHANGED << flowVars, upsertVars, lr, obs, toolVars >>

NextRemote ==
    \/ RemoteCall
    \/ RemoteUpsert
    \/ RemotePrepare
    \/ RemoteBind
    \/ RemoteCfg
    \/ RemoteGet
    \/ RemoteUpload
    \/ RemoteSubmit

SpecRemote == Init /\ [][NextRemote]_vars

(***************************************************************************)
(* _run_flow_local (core_api/run.py): one local execution of a flow        *)
(***************************************************************************)
\* run ids uuid4 may give
RunIds == { << "run1" >>, << "run2" >> }

\* LocalRun(runner, id, operation_id, pipeline=flow_pipeline)
LocalRun(id, operation_id, pipeline) ==
    [id |-> id, operation_id |-> operation_id, pipeline_id |-> None, pipeline |-> pipeline]

\* an executor call starting, returning or raising
Event(call, ev, operation_id, run_id) ==
    [call |-> call, ev |-> ev, operation_id |-> operation_id, run_id |-> run_id]

CallStarted(l, call) == [l EXCEPT !.events = Append(l.events,
                        Event(call, "start", l.operation_id, l.run_id))]
CallReturned(l, call) == [l EXCEPT !.inside = FALSE, !.events = Append(l.events,
                        Event(call, "return", l.operation_id, l.run_id))]
CallRaised(l, call) == [l EXCEPT !.pc = "failed", !.err = "Exception", !.inside = FALSE,
                               !.events = Append(l.events,
                                  Event(call, "raise", l.operation_id, l.run_id))]

\* (mutant) a local execution that returns the handle once run returned
SkipStop(l) == [l EXCEPT !.pc = "return"]

\* line 241 returned: go on to runner.stop
AfterRun(l) == [l EXCEPT !.pc = "stop"]

\* lines 218-237: working area, runner, flow.build(), translation
LocalCall ==
    /\ lr.pc = "idle"
    /\ \E f \in RemoteFlows :
         lr' = [lr EXCEPT !.pc = "prepare", !.flow = f, !.pipeline = Build(f)]
    /\ UNCHANGED << flowVars, upsertVars, rr, obs, toolVars >>

\* a call of the executor is entered
LocalEnter ==
    /\ lr.pc \in {"prepare", "run", "stop"}
    /\ ~lr.inside
    /\ lr' = [CallStarted(lr, lr.pc) EXCEPT !.inside = TRUE]
    /\ UNCHANGED << flowVars, upsertVars, rr, obs, toolVars >>

\* line 239: operation_id = await runner.prepare(pipeline, cfg);
\* line 240: run_id = str(uuid.uuid4())
LocalPrepare ==
    /\ lr.pc = "prepare" /\ lr.inside
    /\ \/ \E o \in OpIds, r \in RunIds :
            lr' = [CallReturned([lr EXCEPT !.operation_id = o], "prepare")
                     EXCEPT !.pc = "run", !.run_id = r]
       \/ lr' = CallRaised(lr, "prepare")
    /\ UNCHANGED << flowVars, upsertVars, rr, obs, toolVars >>

\* line 241: await runner.run(operation_id, run_id, cfg)
LocalExecute ==
    /\ lr.pc = "run" /\ lr.inside
    /\ \/ lr' = AfterRun(CallReturned(lr, "run"))
       \/ lr' = CallRaised(lr, "run")
    /\ UNCHANGED << flowVars, upsertVars, rr, obs, toolVars >>

\* line 242: await runner.stop(operation_id, run_id)
LocalStop ==
    /\ lr.pc = "stop" /\ lr.inside
    /\ \/ lr' = [CallReturned(lr, "stop") EXCEPT !.pc = "return"]
       \/ lr' = CallRaised(lr, "stop")
    /\ UNCHANGED << flowVars, upsertVars, rr, obs, toolVars >>

\* line 243: return LocalRun(runner, run_id, operation_id, pipeline=flow_pipeline)
LocalReturn ==
    /\ lr.pc = "return"
    /\ lr' = [lr EXCEPT !.pc = "done",
                        !.result = LocalRun(lr.run_id, lr.operation_id, lr.pipeline)]
    /\ UNCHANGED << flowVars, upsertVars, rr, obs, toolVars >>

\* LocalRunResults.__getitem__(name): the body of the method is ...
LocalGetItem(run, name) == None

\* the documents the executor left in results_dir / operation_id / run_id /
\* collection / 0.json
LocalDirDocs(operation_id, run_id, collection) ==
    << [dir |-> << operation_id, run_id, collection >>] >>

\* run.results[name].docs() on the LocalRun returned
LocalNamed ==
    /\ lr.pc = "done"
    /\ \E name \in DictKeys(lr.result.pipeline.processors) :
         LET handle == LocalGetItem(lr.result, name) IN
         lr' = [lr EXCEPT !.named =
                  [name |-> name, handle |-> handle,
                   err |-> IF handle = None THEN "AttributeError" ELSE "none",
                   docs |-> << >>]]
    /\ UNCHANGED << flowVars, upsertVars, rr, obs, toolVars >>

NextLocal ==
    \/ LocalNamed
    \/ LocalCall
    \/ LocalEnter
    \/ LocalPrepare
    \/ LocalExecute
    \/ LocalStop
    \/ LocalReturn

SpecLocal == Init /\ [][NextLocal]_vars

(***************************************************************************)
(* runflow and run (run.py): the choice of the backend                     *)
(***************************************************************************)
\* def runflow(flow, /, local: bool = True, imports=[])
RunflowDefaultLocal == TRUE

\* the value of local inside runflow, for a call that passed one or none
RunflowLocal(passed) ==
    IF passed = {} THEN RunflowDefaultLocal ELSE CHOOSE x \in passed : TRUE

\* match local: case True: _run_flow_local; case False: _run_flow_remote
RunflowBackend(local) ==
    CASE local = TRUE -> "local"
      [] local = FALSE -> "remote"

\* what the call returns: _run_flow_local is async def, _run_flow_remote is def
RunflowReturns(backend) ==
    IF backend = "local" THEN "coroutine" ELSE "Run"

\* the calls of runflow: no flag, local=True, local=False
RunflowFlags == { {}, {TRUE}, {FALSE} }

\* runflow(flow), runflow(flow, local=True, imports), runflow(flow, local=False)
DoRunflow ==
    /\ rf.pc = "idle"
    /\ \E passed \in RunflowFlags, f \in RemoteFlows, a \in ActiveLists :
         LET backend == RunflowBackend(RunflowLocal(passed))
         IN /\ rf' = [rf EXCEPT !.pc = "called", !.op = "runflow", !.passed = passed,
                                !.backend = backend,
                                !.returns = RunflowReturns(backend)]
            /\ IF backend = "local"
               THEN /\ lr' = [lr EXCEPT !.pc = "prepare", !.flow = f,
                                        !.pipeline = Build(f)]
                    /\ rr' = rr
               ELSE /\ rr' = [NoRemoteRun EXCEPT !.pc = "upsert", !.flow = f,
                                                 !.active = a]
                    /\ lr' = lr
    /\ UNCHANGED << flowVars, upsertVars, obs, pf, cs, fh, sc >>

\* run(function, config, *groups, **kwargs): lines 290-291 call
\* flow.startwith('__main__', function, config, *groups, data=kwargs), which
\* leaves the keyword-only parameter function of startwith without a value
DoRun ==
    /\ rf.pc = "idle"
    /\ rf' = [rf EXCEPT !.pc = "called", !.op = "run", !.err = "TypeError"]
    /\ UNCHANGED << flowVars, upsertVars, execVars, pf, cs, fh, sc >>

NextDispatch ==
    \/ DoRunflow
    \/ DoRun
    \/ LocalNamed
    \/ LocalEnter
    \/ LocalPrepare
    \/ LocalExecute
    \/ LocalStop
    \/ LocalReturn
    \/ RemoteUpsert
    \/ RemotePrepare
    \/ RemoteBind
    \/ RemoteCfg
    \/ RemoteGet
    \/ RemoteUpload
    \/ RemoteSubmit

SpecDispatch == Init /\ [][NextDispatch]_vars


(***************************************************************************)
(* Run, RunResults, RunNamedResult (core_api/run.py)                       *)
(***************************************************************************)
\* what get_run_status may answer
StatusAnswers == {"in_progress", "running", "waiting", "completed", "failed", "paused"}

\* (mutant) a status that falls back to in_progress for what it does not know
StatusDefault(answer) == [value |-> "in_progress", err |-> "none", msg |-> << >>]

\* Run.status: the match over get_run_status(operation_id, id)
Status(answer) ==
    IF answer \in {"in_progress", "running", "waiting"}
    THEN [value |-> "in_progress", err |-> "none", msg |-> << >>]
    ELSE [value |-> "none", err |-> "ValueError",
          msg |-> << "Unknown run status: ", answer >>]

\* (mutant) terminals that also exclude a node bound to its own output
TerminalsNoSelf(procs) ==
    SelectSeq(procs, LAMBDA e :
        ~\E k \in 1..Len(procs) :
            \E a \in 1..Len(procs[k][2].arguments) :
                procs[k][2].arguments[a][2].id = e[1])

\* Pipeline.terminals(): the nodes no other node's binding names as its
\* upstream source, as a dict in the order of the processors
Terminals(procs) ==
    SelectSeq(procs, LAMBDA e :
        ~\E k \in 1..Len(procs) :
            /\ procs[k][1] # e[1]
            /\ \E a \in 1..Len(procs[k][2].arguments) :
                 procs[k][2].arguments[a][2].id = e[1])

\* the output documents of a node, and the collections of a run of the
\* stored pipeline: one per node, under the node's registered result name
OutputDocs(n) == << [out |-> n, path |-> << "/" >> \o n] >>

\* what the collections of a run may hold: one document with a path, one
\* without, no document, two documents
DocShapes == {"file", "nopath", "empty", "two"}
Documents(n, shape) ==
    CASE shape = "file"   -> OutputDocs(n)
      [] shape = "nopath" -> << [out |-> n, path |-> None] >>
      [] shape = "empty"  -> << >>
      [] shape = "two"    -> OutputDocs(n) \o OutputDocs(n \o << "2" >>)
RunCollections(stored, shape) ==
    [k \in 1..Len(stored.results) |->
        << stored.results[k][2][1].name, Documents(stored.results[k][1], shape) >>]

\* RunNamedResult.docs: get_collections_by_group_name(name, ...).data[0].docs
NamedDocs(collections, name) ==
    IF DictHas(collections, name)
    THEN [err |-> "none", msg |-> "", docs |-> DictGet(collections, name)]
    ELSE [err |-> "IndexError", msg |-> "", docs |-> << >>]

\* RunFileResult(path=path)
RunFileResult(path) == [path |-> path]

\* (mutant) a file() that takes the first document of however many there are
NamedFileFirst(d) ==
    IF d.err # "none" \/ Len(d.docs) = 0 THEN d
    ELSE [d EXCEPT !.docs = << RunFileResult(d.docs[1].path) >>]

\* RunNamedResult.file on the outcome of docs(); on success the field docs
\* holds the RunFileResult returned
NamedFile(d) ==
    IF d.err # "none" THEN d
    ELSE IF Len(d.docs) # 1
    THEN [err |-> "ValueError", msg |-> "expected exactly one document", docs |-> << >>]
    ELSE IF d.docs[1].path = None
    THEN [err |-> "ValueError", msg |-> "expected the document to contain a path field", docs |-> << >>]
    ELSE [d EXCEPT !.docs = << RunFileResult(d.docs[1].path) >>]

\* a RunResults object: its cached terminal result id
RunResults == [cache |-> None]

\* the check of __get_terminal_result_id on the number of terminals
SingleTerminal(terminals) == Len(terminals) = 1

\* RunResults.__get_terminal_result_id once Pipeline.get answered:
\* [value, cache, err, msg]
TerminalResultId(holder, got) ==
    IF got.err # "none"
    THEN [value |-> None, cache |-> holder.cache, err |-> got.err, msg |-> ""]
    ELSE LET terminals == Terminals(got.value.processors) IN
         IF ~SingleTerminal(terminals)
         THEN [value |-> None, cache |-> holder.cache, err |-> "ValueError",
               msg |-> "use .results[name] to access the result of a certain flow element"]
         ELSE LET name == terminals[1][1]
                  id == IF holder.cache = None
                        THEN DictGet(LocalResults(got.value.processors), name)[1].name
                        ELSE holder.cache
              IN [value |-> id, cache |-> id, err |-> "none", msg |-> ""]

\* flows with one terminal, two terminals and none
FlowCycle ==
    AddFlow(AddFlow(Add(StartWith(NewFlow, S_a, << >>, Fn1, None, None).flow,
                        S_b, Fn2, None).flow,
                    S_a, S_h, S_b).flow,
            S_b, S_h, S_a).flow
ObservedFlows == {FlowData1, FlowChain, FlowTwoInputs, FlowCycle}

MaxAccesses == 2

\* a Run of a pipeline the platform stores
ObsStart ==
    /\ obs.pc = "idle"
    /\ \E f \in ObservedFlows :
         LET b == Build(f) IN
         \E stored \in Registrations(b.id, b.processors, LocalResults(b.processors)),
            shape \in DocShapes :
            obs' = [obs EXCEPT !.pc = "ready",
                               !.stored = stored,
                               !.content = shape,
                               !.run = Run(<< "run1" >>, << "op1" >>, stored.pipelineId)]
    /\ UNCHANGED << flowVars, upsertVars, rr, lr, toolVars >>

\* Run.results: a new RunResults on every read of the property
ObsResults ==
    /\ obs.pc = "ready"
    /\ obs.made < MaxAccesses
    /\ obs' = [obs EXCEPT !.holder = RunResults, !.held = TRUE, !.made = @ + 1]
    /\ UNCHANGED << flowVars, upsertVars, rr, lr, toolVars >>

\* RunResults.docs / RunResults.file on the RunResults the caller holds
ObsUnnamed ==
    /\ obs.pc = "ready" /\ obs.held
    /\ obs.fetches < MaxAccesses
    /\ \E kind \in {"docs", "file"},
          resp \in {[status |-> "ok", body |-> obs.stored], Failure} :
         LET t == TerminalResultId(obs.holder, PipelineGet(resp))
             d == NamedDocs(RunCollections(obs.stored, obs.content), t.value)
             out == IF t.err # "none"
                    THEN [err |-> t.err, msg |-> t.msg, docs |-> << >>]
                    ELSE IF kind = "docs" THEN d ELSE NamedFile(d)
         IN obs' = [obs EXCEPT !.holder = [cache |-> t.cache],
                               !.fetches = @ + 1,
                               !.resolved = @ \/ t.err = "none",
                               !.unnamed = [kind |-> kind, name |-> t.value, err |-> out.err,
                                            msg |-> out.msg, docs |-> out.docs]]
    /\ UNCHANGED << flowVars, upsertVars, rr, lr, toolVars >>

\* RunResults.__getitem__(name).docs() for a node of the pipeline
ObsNamed ==
    /\ obs.pc = "ready" /\ obs.held
    /\ \E name \in DictKeys(obs.stored.processors) :
         LET d == NamedDocs(RunCollections(obs.stored, obs.content), name)
         IN obs' = [obs EXCEPT !.named = [kind |-> "docs", name |-> name, err |-> d.err,
                                          msg |-> d.msg, docs |-> d.docs]]
    /\ UNCHANGED << flowVars, upsertVars, rr, lr, toolVars >>

\* Run.status()
ObsStatus ==
    /\ obs.pc = "ready"
    /\ \E answer \in StatusAnswers :
         obs' = [obs EXCEPT !.answer = answer, !.status = Status(answer)]
    /\ UNCHANGED << flowVars, upsertVars, rr, lr, toolVars >>

NextRun ==
    \/ ObsStart
    \/ ObsResults
    \/ ObsUnnamed
    \/ ObsNamed
    \/ ObsStatus

SpecRun == Init /\ [][NextRun]_vars

(***************************************************************************)
(* parse_fn applied to a reference string                                  *)
(***************************************************************************)
\* a reference string and the credentials.json of the user
InitParse ==
    /\ InitRuns
    /\ pf \in { [NoParse EXCEPT !.pc = "called", !.input = s, !.credentials = c] :
                  s \in FunRefs, c \in Stores }
    /\ cs = NoLookup
    /\ fh = NoFiles
    /\ sc = NoScopes

\* parse_fn(fun_ref); the store may be unavailable when it is opened
DoParseFn ==
    /\ pf.pc = "called"
    /\ \E unavailable \in BOOLEAN :
         pf' = [pf EXCEPT !.pc = "done",
                          !.unavailable = unavailable,
                          !.out = ParseFn(pf.input, pf.credentials, unavailable)]
    /\ UNCHANGED << flowVars, upsertVars, execVars, cs, fh, rf, sc >>

NextParse == DoParseFn

SpecParse == InitParse /\ [][NextParse]_vars

\* references of each form, and environments that set the image login or not
ResolvedRefs == {S_foo, S_pinned, S_embedded, S_plain}
ImageEnvironments ==
    { e \in Environments :
        /\ e.MALEVICH_USER = Unset
        /\ e.MALEVICH_PASSWORD = Unset
        /\ e.MALEVICH_HOST = Unset }

\* a reference string, the credentials.json of the user and the environment
InitResolve ==
    /\ InitRuns
    /\ pf \in { [NoParse EXCEPT !.pc = "called", !.input = s, !.credentials = c,
                                !.env = e] :
                  s \in ResolvedRefs, c \in Stores, e \in ImageEnvironments }
    /\ cs = NoLookup
    /\ fh = NoFiles
    /\ sc = NoScopes

NextResolve == DoParseFn

SpecResolve == InitResolve /\ [][NextResolve]_vars


(***************************************************************************)
(* Lookups in the credential store                                         *)
(***************************************************************************)
\* an environment and a credentials.json
InitLookup ==
    /\ InitRuns
    /\ pf = NoParse
    /\ cs \in { [NoLookup EXCEPT !.pc = "loaded", !.env = e, !.credentials = c] :
                  e \in Environments, c \in LookupStores }
    /\ fh = NoFiles
    /\ sc = NoScopes

\* store.get_core_credentials(username)
DoGetCore ==
    /\ cs.pc = "loaded"
    /\ \E username \in Usernames :
         cs' = [cs EXCEPT !.pc = "done", !.call = "core", !.asked = username,
                          !.out = GetCoreCredentials(cs.env, cs.credentials, username)]
    /\ UNCHANGED << flowVars, upsertVars, execVars, pf, fh, rf, sc >>

\* store.get_image_credentials(ref)
DoGetImage ==
    /\ cs.pc = "loaded"
    /\ \E ref \in RegistryRefs :
         cs' = [cs EXCEPT !.pc = "done", !.call = "image", !.asked = ref,
                          !.out = GetImageCredentials(cs.env, cs.credentials, ref)]
    /\ UNCHANGED << flowVars, upsertVars, execVars, pf, fh, rf, sc >>

NextLookup ==
    \/ DoGetCore
    \/ DoGetImage

SpecLookup == InitLookup /\ [][NextLookup]_vars


(***************************************************************************)
(* A store changed and listed call by call                                 *)
(***************************************************************************)
StoreCalled(call, asked, credentials, out) ==
    [cs EXCEPT !.pc = "stored", !.call = call, !.asked = asked, !.before = cs.credentials,
               !.credentials = credentials, !.out = out, !.ops = @ + 1]

CanCallStore == cs.pc \in {"idle", "stored"} /\ cs.ops < MaxStoreOps

\* store.add_core_credentials(user, password, host, replace)
DoAddCore ==
    /\ CanCallStore
    /\ \E user \in StoreUsers, replace \in BOOLEAN :
         LET password == SecretOf(user) IN
         cs' = StoreCalled("add_core_credentials",
                           [user |-> user, secret |-> password, replace |-> replace],
                           AddCoreCredentials(cs.credentials, user, password,
                                              DefaultHost, replace),
                           CoreCredentials(user, password, DefaultHost))
    /\ UNCHANGED << flowVars, upsertVars, execVars, pf, fh, rf, sc >>

\* store.add_image_credentials(ref, user, token, replace)
DoAddImage ==
    /\ CanCallStore
    /\ \E ref \in StoreRefs, user \in StoreUsers, replace \in BOOLEAN :
         LET token == SecretOf(user) IN
         cs' = StoreCalled("add_image_credentials",
                           [ref |-> ref, user |-> user, secret |-> token,
                            replace |-> replace],
                           AddImageCredentials(cs.credentials, ref, user, token, replace),
                           ImageCredentials(ref, user, token))
    /\ UNCHANGED << flowVars, upsertVars, execVars, pf, fh, rf, sc >>

\* malevich-sdk creds add ..., with the default host accepted at the prompt
DoCliAdd ==
    /\ CanCallStore
    /\ \E cred_type \in {"image", "core", "other"}, registry \in {S_ghcr},
          login \in {S_carol}, password \in {SecretOf(S_carol), None},
          overwrite \in BOOLEAN :
         LET r == CliAdd(cs.credentials, cred_type, registry, login, password,
                         overwrite, DefaultHost)
         IN cs' = StoreCalled("cli_add",
                              [type |-> cred_type, ref |-> registry, user |-> login,
                               secret |-> password, replace |-> overwrite],
                              r.credentials, r.exit)
    /\ UNCHANGED << flowVars, upsertVars, execVars, pf, fh, rf, sc >>

\* store.remove_core_credentials()
DoRemoveCore ==
    /\ CanCallStore
    /\ LET r == RemoveCoreCredentials(cs.credentials)
       IN cs' = StoreCalled("remove_core_credentials", << >>, r.credentials, r.removed)
    /\ UNCHANGED << flowVars, upsertVars, execVars, pf, fh, rf, sc >>

\* store.remove_image_credentials(ref)
DoRemoveImage ==
    /\ CanCallStore
    /\ \E ref \in StoreRefs :
         LET r == RemoveImageCredentials(cs.credentials, ref)
         IN cs' = StoreCalled("remove_image_credentials", [ref |-> ref],
                              r.credentials, r.removed)
    /\ UNCHANGED << flowVars, upsertVars, execVars, pf, fh, rf, sc >>

\* store.list_all()
DoListAll ==
    /\ CanCallStore
    /\ cs' = StoreCalled("list_all", << >>, cs.credentials, ListAll(cs.credentials))
    /\ UNCHANGED << flowVars, upsertVars, execVars, pf, fh, rf, sc >>

NextStore ==
    \/ DoAddCore
    \/ DoAddImage
    \/ DoCliAdd
    \/ DoRemoveCore
    \/ DoRemoveImage
    \/ DoListAll

SpecStore == Init /\ [][NextStore]_vars



(***************************************************************************)
(* Scopes entered and left, properly nested                                *)
(***************************************************************************)
S_host == << "h", "/" >>
S_host2 == << "h", "2" >>
ScopeUrls == {S_host, S_host2}
ScopeAuths == { << S_alice, SecretOf(S_alice) >>, << S_bob, SecretOf(S_bob) >> }
ScopeConfigs ==
    { NoConfig,
      [HOST_PORT |-> << "h", "0", "/" >>, CORE_USERNAME |-> S_carol,
       CORE_PASSWORD |-> SecretOf(S_carol)] }
ScopeEnvironments ==
    { NoEnvironment,
      [NoEnvironment EXCEPT !.MALEVICH_USER = << "e", "n", "v", "u", "s", "e", "r" >>,
                            !.MALEVICH_PASSWORD = << "e", "n", "v", "p", "a", "s", "s" >>] }
ScopeStores == { << >>, << CoreCredentials(S_alice, << "s", "e", "c", "r", "e", "t" >>, DefaultHost) >> }

InitScopes ==
    /\ InitRuns
    /\ pf = NoParse
    /\ cs = NoLookup
    /\ fh = NoFiles
    /\ sc \in { [NoScopes EXCEPT !.config = c, !.base = c, !.env = e, !.credentials = s] :
                  c \in ScopeConfigs, e \in ScopeEnvironments, s \in ScopeStores }

CanEnter == ~sc.raising /\ sc.entered < MaxScopes

\* the with statement ran the scope up to its yield, or the scope raised
Entered(kind, r) ==
    IF r.err = "none"
    THEN [sc EXCEPT !.config = r.config,
                    !.stack = Append(@, [kind |-> kind, old |-> r.old, found |-> sc.config]),
                    !.last = "entered",
                    !.entered = @ + 1,
                    !.deepest = IF Len(sc.stack) + 1 > @ THEN Len(sc.stack) + 1 ELSE @]
    ELSE [sc EXCEPT !.last = r.err, !.raising = sc.stack # << >>, !.entered = @ + 1]

\* with with_connection(url):
ScopeConnection ==
    /\ CanEnter
    /\ \E url \in ScopeUrls : sc' = Entered("connection", WithConnection(sc.config, url))
    /\ UNCHANGED << flowVars, upsertVars, execVars, pf, cs, fh, rf >>

\* with with_credentials(auth):
ScopeCredentials ==
    /\ CanEnter
    /\ \E auth \in ScopeAuths : sc' = Entered("credentials", WithCredentials(sc.config, auth))
    /\ UNCHANGED << flowVars, upsertVars, execVars, pf, cs, fh, rf >>

\* with with_user(username):
ScopeUser ==
    /\ CanEnter
    /\ \E username \in {S_alice, S_bob} :
         sc' = Entered("user", WithUser(sc.config, sc.env, sc.credentials, username))
    /\ UNCHANGED << flowVars, upsertVars, execVars, pf, cs, fh, rf >>

\* the scope on top is left: its generator is resumed, or thrown into
Left(raised, caught) ==
    LET top == sc.stack[Len(sc.stack)] IN
    [sc EXCEPT !.config = ScopeExit(sc.config, top.kind, top.old, raised),
               !.stack = SubSeq(sc.stack, 1, Len(sc.stack) - 1),
               !.last = IF raised THEN "raised" ELSE "ended",
               !.restored = top.found,
               !.raised = IF raised THEN @ + 1 ELSE @,
               !.raising = raised /\ ~caught /\ Len(sc.stack) > 1]

\* the body of the innermost scope ends
ScopeBodyEnds ==
    /\ sc.stack # << >> /\ ~sc.raising
    /\ sc' = Left(FALSE, FALSE)
    /\ UNCHANGED << flowVars, upsertVars, execVars, pf, cs, fh, rf >>

\* the body of the innermost scope raises; the enclosing body catches the
\* exception or lets it travel on
ScopeBodyRaises ==
    /\ sc.stack # << >> /\ ~sc.raising
    /\ \E caught \in BOOLEAN : sc' = Left(TRUE, caught)
    /\ UNCHANGED << flowVars, upsertVars, execVars, pf, cs, fh, rf >>

\* an exception on its way out leaves the next scope
ScopeUnwinds ==
    /\ sc.stack # << >> /\ sc.raising
    /\ \E caught \in BOOLEAN : sc' = Left(TRUE, caught)
    /\ UNCHANGED << flowVars, upsertVars, execVars, pf, cs, fh, rf >>

NextScopes ==
    \/ ScopeConnection
    \/ ScopeCredentials
    \/ ScopeUser
    \/ ScopeBodyEnds
    \/ ScopeBodyRaises
    \/ ScopeUnwinds

SpecScopes == InitScopes /\ [][NextScopes]_vars



(***************************************************************************)
(* File objects and the resources behind them (modelling/file.py)          *)
(***************************************************************************)
\* File(path): mkstemp creates the temporary file and returns an open
\* descriptor, which __init__ drops without closing
FileInit(f) ==
    /\ fh[f].obj = "none"
    /\ fh' = [fh EXCEPT ![f] = [@ EXCEPT !.obj = "referenced", !.temp = TRUE, !.fd = TRUE]]
    /\ UNCHANGED << flowVars, upsertVars, execVars, pf, cs, rf, sc >>

\* with file.open(mode) as fp: the generator runs up to its yield
FileOpen(f) ==
    /\ fh[f].obj = "referenced" /\ ~fh[f].inside
    /\ fh[f].opens < MaxOpens
    /\ fh' = [fh EXCEPT ![f] = [@ EXCEPT !.inside = TRUE, !.fps = @ + 1, !.opens = @ + 1]]
    /\ UNCHANGED << flowVars, upsertVars, execVars, pf, cs, rf, sc >>

\* the body of the with-block ends: the generator resumes after its yield
\* and closes fp
FileBodyEnds(f) ==
    /\ fh[f].inside
    /\ fh' = [fh EXCEPT ![f] = [@ EXCEPT !.inside = FALSE, !.fps = @ - 1]]
    /\ UNCHANGED << flowVars, upsertVars, execVars, pf, cs, rf, sc >>

\* the body of the with-block raises: the exception is thrown into the
\* generator at its yield, and fp.close() after the yield is not reached
FileBodyRaises(f) ==
    /\ fh[f].inside
    /\ fh' = [fh EXCEPT ![f] = [@ EXCEPT !.inside = FALSE]]
    /\ UNCHANGED << flowVars, upsertVars, execVars, pf, cs, rf, sc >>

\* the caller's last reference to the File goes away
FileUnreferenced(f) ==
    /\ fh[f].obj = "referenced" /\ ~fh[f].inside
    /\ fh' = [fh EXCEPT ![f] = [@ EXCEPT !.obj = "unreferenced"]]
    /\ UNCHANGED << flowVars, upsertVars, execVars, pf, cs, rf, sc >>

\* File.__del__, whenever the collector finalizes the object
FileDel(f) ==
    /\ fh[f].obj = "unreferenced"
    /\ fh' = [fh EXCEPT ![f] = [@ EXCEPT !.obj = "finalized", !.temp = FALSE]]
    /\ UNCHANGED << flowVars, upsertVars, execVars, pf, cs, rf, sc >>

\* the collector finalizes a file object that open() left open
FileHandleCollected(f) ==
    /\ ~fh[f].inside /\ fh[f].fps > 0
    /\ fh' = [fh EXCEPT ![f] = [@ EXCEPT !.fps = @ - 1]]
    /\ UNCHANGED << flowVars, upsertVars, execVars, pf, cs, rf, sc >>

NextFile ==
    \E f \in FileIds :
        \/ FileInit(f)
        \/ FileOpen(f)
        \/ FileBodyEnds(f)
        \/ FileBodyRaises(f)
        \/ FileUnreferenced(f)
        \/ FileDel(f)
        \/ FileHandleCollected(f)

SpecFile == Init /\ [][NextFile]_vars


(***************************************************************************)
(* The graph of a flow                                                     *)
(***************************************************************************)
Nodes(fl) == DictKeys(fl.procs)
NodeOf(fl, n) == DictGet(fl.procs, n)
ArgsOf(fl, n) == DictKeys(NodeOf(fl, n).arguments)
Binding(fl, n, a) == DictGet(NodeOf(fl, n).arguments, a)

\* the (node, argument) pairs that have a binding
BoundPairs(fl) == UNION { { << n, a >> : a \in ArgsOf(fl, n) } : n \in Nodes(fl) }

\* an edge << A, B >> whenever some argument of B is bound to A's output
Edges(fl) ==
    { << Binding(fl, x[1], x[2]).id, x[1] >> :
        x \in { y \in BoundPairs(fl) : Binding(fl, y[1], y[2]).id # None } }

RECURSIVE ReachIn(_, _, _)
\* the nodes reached from the set S along at most k further edges of E
ReachIn(E, S, k) ==
    IF k = 0 THEN S
    ELSE ReachIn(E, S \cup { e[2] : e \in { d \in E : d[1] \in S } }, k - 1)

\* some node reaches itself along one or more edges
HasCycle(E) ==
    \E e \in E : e[1] \in ReachIn(E, {e[2]}, Cardinality(E))

\* every literal-data group the flow holds, with the node it belongs to
LiteralGroups(fl) ==
    UNION { { << fl.groups[i][1], fl.groups[i][2][j][2] >> :
                j \in 1..Len(fl.groups[i][2]) } : i \in 1..Len(fl.groups) }

C2_AddFlowDuplicate ==
    [][ ret'.op = "addflow" =>
          /\ << ret'.node, ret'.arg >> \in BoundPairs(flows[1])
               => /\ ret'.err \in {"group_set", "argument_set"}
                  /\ flows'[1].procs = flows[1].procs
          /\ \A x \in BoundPairs(flows[1]) :
               /\ x \in BoundPairs(flows'[1])
               /\ Binding(flows'[1], x[1], x[2]) = Binding(flows[1], x[1], x[2])
      ]_vars

\* C2 witness: an addflow was refused on a pair bound by an earlier addflow
C2_Witness ==
    /\ ret.op = "addflow" /\ ret.err = "argument_set"
    /\ Binding(flows[1], ret.node, ret.arg).id # None

(***************************************************************************)
(* C3. startwith / add with the name of an existing node fails with a      *)
(* duplicate-node error, and no startwith / add call removes or changes    *)
(* an existing node.  (Stated as claimed; the code replaces the node.)     *)
(***************************************************************************)
C3_AppendOnly ==
    [][ ret'.op \in {"startwith", "add"} =>
          /\ ret'.node \in Nodes(flows[1]) => ret'.err = "exists"
          /\ \A n \in Nodes(flows[1]) :
               n \in Nodes(flows'[1]) /\ NodeOf(flows'[1], n) = NodeOf(flows[1], n)
      ]_vars

(***************************************************************************)
(* C4. The literal-data groups of a flow all have different collection     *)
(* names.  (Stated as claimed; two nodes with default data share           *)
(* "__input__0".)                                                          *)
(***************************************************************************)
C4_DistinctCollections ==
    \A x, y \in LiteralGroups(flows[1]) :
        x # y => x[2].collection_name # y[2].collection_name


(***************************************************************************)
(* Node specs of a pipeline, as a mapping: what two pipelines built by     *)
(* different call sequences have in common                                 *)
(***************************************************************************)
NodeSpec(p) ==
    [ image |-> p.image, processorId |-> p.processorId, cfg |-> p.cfg,
      arguments |-> DictMap(p.arguments) ]

NodeSpecs(procs) == [n \in DictKeys(procs) |-> NodeSpec(DictGet(procs, n))]

BothBuilt == built[1].id # None /\ built[2].id # None

C6_DifferentSpecsDifferentId ==
    (BothBuilt /\ NodeSpecs(built[1].processors) # NodeSpecs(built[2].processors))
        => built[1].id # built[2].id

\* C6 witness: two built pipelines with the same node names that differ only
\* in the bindings of a node, and have different identities
C6_Witness ==
    /\ BothBuilt
    /\ DictKeys(built[1].processors) = DictKeys(built[2].processors)
    /\ \E n \in DictKeys(built[1].processors) :
         LET p == DictGet(built[1].processors, n)
             q == DictGet(built[2].processors, n)
         IN /\ p.image = q.image /\ p.cfg = q.cfg
            /\ DictMap(p.arguments) # DictMap(q.arguments)
    /\ built[1].id # built[2].id


(***************************************************************************)
(* Upserts                                                                 *)
(***************************************************************************)
Returned(c) == up[c].pc = "done"
Ended(c) == up[c].pc \in {"done", "failed"}
SameGraph == up[1].local.processors = up[2].local.processors

(***************************************************************************)
(* C7. Two upserts of the same graph, one after the other, return          *)
(* Pipelines of equal identity and issue create_pipeline at most once      *)
(* over both calls.  (Stated as claimed; a failed initial fetch of the     *)
(* second call is taken for "not found" and the graph is created again.)   *)
(***************************************************************************)
C7_UpsertTwice ==
    (Returned(1) /\ Returned(2) /\ SameGraph /\ ~overlap)
        => /\ up[1].result.id = up[2].result.id
           /\ up[1].creates + up[2].creates <= 1

(***************************************************************************)
(* C8. Two concurrent upserts of the same graph both return, with          *)
(* Pipelines of equal identity, in every interleaving in which no call     *)
(* fails for a transport reason.  (Stated as claimed; an already-exists    *)
(* answer to create_pipeline leaves upsert as an exception.)               *)
(***************************************************************************)
C8_ConcurrentUpserts ==
    (Ended(1) /\ Ended(2) /\ SameGraph /\ faults = 0)
        => /\ Returned(1) /\ Returned(2)
           /\ up[1].result.id = up[2].result.id

(***************************************************************************)
(* C9. An upsert that returns has a successful get_pipeline as its last    *)
(* platform call, also after it created the pipeline, and the Pipeline it  *)
(* returns carries the id, processors and results of that answer.          *)
(***************************************************************************)
C9_ReturnsFetched ==
    \A c \in Callers :
        Returned(c) =>
            /\ up[c].last.kind = "get"
            /\ up[c].last.resp.status = "ok"
            /\ up[c].result.id = up[c].last.resp.body.pipelineId
            /\ up[c].result.processors = up[c].last.resp.body.processors
            /\ up[c].result.result_map = up[c].last.resp.body.results

\* C9 witness: an upsert returned on its creating path, with results the
\* platform regenerated, which differ from the locally computed ones
C9_Witness ==
    \E c \in Callers :
        /\ Returned(c)
        /\ up[c].creates = 1
        /\ up[c].result.result_map # LocalResults(up[c].local.processors)

(***************************************************************************)
(* C10. An initial fetch that fails for another reason than "not found"    *)
(* surfaces to the caller and no create_pipeline call is issued.  (Stated  *)
(* as claimed; Pipeline.get turns every exception into                     *)
(* PipelineNotFoundError, which upsert swallows.)                          *)
(***************************************************************************)
C10_OnlyNotFoundSwallowed ==
    \A c \in Callers :
        up[c].first = "error" => (up[c].pc = "failed" /\ up[c].creates = 0)

(***************************************************************************)
(* Remote execution                                                        *)
(***************************************************************************)
\* the lifecycle state a remote execution is in
Phase(r) ==
    CASE r.pc \in {"idle", "upsert", "prepare", "bind"} -> "Unprepared"
      [] r.pc \in {"cfg", "get", "upload", "submit"}    -> "Prepared"
      [] r.pc = "running"                               -> "Executing"
      [] OTHER                                          -> "Failed"

PhaseSteps ==
    { << "Unprepared", "Prepared" >>, << "Prepared", "Executing" >>,
      << "Unprepared", "Failed" >>, << "Prepared", "Failed" >> }

\* the platform calls of one remote execution of the flow, in program order
CallOrder(fl) ==
    << "upsert", "create_cfg", "pipeline_prepare", "get_run_main_pipeline_cfg",
       "get_run_main_pipeline_cfg", "get_pipeline" >>
    \o [k \in 1..Len(AllGroups(fl)) |-> "create_doc"]
    \o << "create_cfg", "task_run" >>

IsPrefix(s, t) == Len(s) <= Len(t) /\ \A k \in 1..Len(s) : s[k] = t[k]

Issued(r, call) == \E k \in 1..Len(r.calls) : r.calls[k] = call

(***************************************************************************)
(* C11. A remote execution moves Unprepared -> Prepared -> Executing, or   *)
(* to Failed, one state at a time; its platform calls are issued in        *)
(* program order, none twice; task_run is issued only with an Operation    *)
(* obtained and verified for the upserted pipeline; and once a step has    *)
(* failed nothing more is done.                                            *)
(***************************************************************************)
C11_Lifecycle ==
    [][ /\ Phase(rr') = Phase(rr) \/ << Phase(rr), Phase(rr') >> \in PhaseSteps
        /\ IsPrefix(rr.calls, rr'.calls)
        /\ IsPrefix(rr'.calls, CallOrder(rr'.flow))
        /\ Issued(rr', "task_run") =>
             /\ Issued(rr', "pipeline_prepare")
             /\ rr'.op.id # None
             /\ rr'.info = CfgInfo(rr'.pipeline.id)
             /\ rr'.op.pipeline_id = rr'.pipeline.id
        /\ rr.pc = "failed" => rr' = rr ]_vars

\* C11 witness: a run was submitted, after the documents of a flow with
\* literal data were created
C11_Witness ==
    /\ rr.pc = "running"
    /\ Issued(rr, "task_run")
    /\ Issued(rr, "create_doc")
    /\ rr.run.operation_id = rr.op.id

(***************************************************************************)
(* C12. When the platform lists an active Operation for the pipeline,      *)
(* preparing a run uses it and requests no fresh Operation.  (Stated as    *)
(* claimed; _run_flow_remote always calls operations.create().)            *)
(***************************************************************************)
C12_ReusesActive ==
    (rr.active # {} /\ rr.op.id # None)
        => (rr.op.id \in rr.active /\ ~Issued(rr, "pipeline_prepare"))

(***************************************************************************)
(* C13. bind_pipeline with verification: when the platform reports the     *)
(* expected pipeline identity the Operation's pipeline_id becomes that     *)
(* identity; when it reports another identity, or the query fails, the     *)
(* call fails with the binding error and the Operation is left as it was.  *)
(***************************************************************************)
C13_BindPipeline ==
    [][ rr.pc = "bind" =>
          IF rr'.info.status = "ok" /\ rr'.info.pipelineId = rr.pipeline.id
          THEN /\ rr'.pc = "cfg"
               /\ rr'.op = [rr.op EXCEPT !.pipeline_id = rr.pipeline.id]
          ELSE /\ rr'.pc = "failed"
               /\ rr'.err = "ValueError"
               /\ rr'.op = rr.op ]_vars

\* C13 witness: the platform reported another pipeline identity and the
\* bind failed, the Operation's pipeline_id still unset
C13_Witness ==
    /\ rr.pc = "failed"
    /\ rr.info.status = "ok"
    /\ rr.info.pipelineId # rr.pipeline.id
    /\ rr.err = "ValueError"
    /\ rr.op.pipeline_id = None

(***************************************************************************)
(* C16. Once the collections are uploaded there is one document per        *)
(* literal-data group of the flow, and the collection map has one entry    *)
(* per group, from the group's collection name to '#' + the id of the      *)
(* document made from the group's data; the run is created with that map.  *)
(* (Stated as claimed; two default data groups share the name              *)
(* __input__0 and so one entry.)                                           *)
(***************************************************************************)
C16_OneEntryPerGroup ==
    rr.pc \in {"submit", "running"} =>
        LET gs == AllGroups(rr.flow)
        IN /\ Len(rr.docs) = Len(gs)
           /\ Len(rr.collections) = Len(gs)
           /\ \A k \in 1..Len(gs) :
                /\ rr.docs[k].data = gs[k].data
                /\ DictHas(rr.collections, gs[k].collection_name)
                /\ DictGet(rr.collections, gs[k].collection_name)
                     = << "#" >> \o rr.docs[k].id
           /\ rr.pc = "running" => rr.submitted = rr.collections

(***************************************************************************)
(* Local execution                                                         *)
(***************************************************************************)
\* the executor events of a local execution that ran to its end
LocalOrder(o, r) ==
    << Event("prepare", "start", None, None), Event("prepare", "return", o, None),
       Event("run", "start", o, r), Event("run", "return", o, r),
       Event("stop", "start", o, r), Event("stop", "return", o, r) >>

\* s is a prefix of t, but for a last event that may be a raise in place of
\* the return
IsRunOf(s, t) ==
    /\ Len(s) <= Len(t)
    /\ \A k \in 1..Len(s) :
         \/ s[k] = t[k]
         \/ /\ k = Len(s)
            /\ s[k] = [t[k] EXCEPT !.ev = "raise", !.operation_id = s[k].operation_id]
            /\ t[k].ev = "return"

(***************************************************************************)
(* C15. In a local execution the executor is called in the order prepare,  *)
(* run, stop, each call entered only after the one before has returned;    *)
(* run and stop are given the operation id prepare returned and one run    *)
(* id; and the handle is returned only after stop has returned, carrying   *)
(* those ids.                                                              *)
(***************************************************************************)
C15_PrepareRunStop ==
    /\ \E o \in OpIds \cup {lr.operation_id}, r \in RunIds \cup {lr.run_id} :
         IsRunOf(lr.events, LocalOrder(o, r))
    /\ lr.pc = "done" =>
         /\ Len(lr.events) = 6
         /\ lr.events[6] = Event("stop", "return", lr.result.operation_id, lr.result.id)
         /\ lr.events[2].operation_id = lr.result.operation_id

\* C15 witness: a local execution returned its handle after the three calls
C15_Witness ==
    /\ lr.pc = "done"
    /\ Len(lr.events) = 6
    /\ lr.result.id \in RunIds
    /\ lr.result.operation_id \in OpIds


(***************************************************************************)
(* Status and results of a Run                                             *)
(***************************************************************************)
(***************************************************************************)
(* C14. Run.status answers in_progress for the platform states running     *)
(* and waiting (and in_progress); for every other string it raises a       *)
(* ValueError whose message names the string, and returns no status.       *)
(***************************************************************************)
C14_StatusMapping ==
    obs.answer # "none" =>
        /\ obs.answer \in {"running", "waiting"} =>
             (obs.status.err = "none" /\ obs.status.value = "in_progress")
        /\ obs.status.err = "none" =>
             obs.answer \in {"in_progress", "running", "waiting"}
        /\ obs.status.err # "none" =>
             /\ obs.status.err = "ValueError"
             /\ obs.status.value = "none"
             /\ obs.status.msg = << "Unknown run status: ", obs.answer >>

\* C14 witness: the platform answered a string Run.status does not know
C14_Witness ==
    /\ obs.answer = "paused"
    /\ obs.status.err = "ValueError"

\* the terminals of the pipeline of the observed run
ObsTerminals == Terminals(obs.stored.processors)

(***************************************************************************)
(* C17. For a run of a pipeline with exactly one terminal T, the           *)
(* documents read by results.docs() are those read by results[T].docs().   *)
(* (Stated as claimed; the unnamed access asks for the collection          *)
(* <hash>_T, the named one for the collection T.)                          *)
(***************************************************************************)
C17_UnnamedEqualsNamed ==
    ( /\ Len(ObsTerminals) = 1
      /\ obs.unnamed.kind = "docs" /\ obs.unnamed.err = "none"
      /\ obs.named.kind = "docs" /\ obs.named.name = ObsTerminals[1][1] )
        => (obs.named.err = "none" /\ obs.named.docs = obs.unnamed.docs)

(***************************************************************************)
(* C18. For a run of a pipeline with two or more terminals, an unnamed     *)
(* access whose pipeline fetch succeeded fails with the error that sends   *)
(* the caller to named access, and a named access for a terminal returns   *)
(* that terminal's documents.  (Stated as claimed; the named access asks   *)
(* for a collection called as the node.)                                   *)
(***************************************************************************)
C18_AmbiguousTerminals ==
    Len(ObsTerminals) >= 2 =>
        /\ (obs.unnamed.kind # "none" /\ obs.unnamed.err # "PipelineNotFoundError") =>
             /\ obs.unnamed.err = "ValueError"
             /\ obs.unnamed.msg
                  = "use .results[name] to access the result of a certain flow element"
        /\ obs.named.kind # "none" =>
             /\ obs.named.err = "none"
             /\ obs.named.docs = Documents(obs.named.name, obs.content)

(***************************************************************************)
(* C20. Once an unnamed access on a Run has resolved the terminal result   *)
(* identity, no later access on that Run fetches the pipeline again.       *)
(* (Stated as claimed; every unnamed access calls Pipeline.get.)           *)
(***************************************************************************)
C20_ResolvedOnce ==
    [][ obs.resolved => obs'.fetches = obs.fetches ]_vars


(***************************************************************************)
(* Terminals of a flow's graph                                             *)
(***************************************************************************)
\* the names of the terminals of the flow's processors
TerminalNames(fl) ==
    { Terminals(fl.procs)[k][1] : k \in 1..Len(Terminals(fl.procs)) }

AskedCollection(access) == DictGet(RunCollections(obs.stored, obs.content), access.name)
ReachedCollection(access) ==
    /\ access.kind = "file"
    /\ DictHas(RunCollections(obs.stored, obs.content), access.name)

(***************************************************************************)
(* C21. file() on a result collection returns a file handle for the        *)
(* document's path exactly when the collection holds exactly one document  *)
(* and that document has a path; with no document or several it fails      *)
(* with the error on the number of documents, and with one document        *)
(* lacking a path it fails with the error on the missing path.             *)
(***************************************************************************)
C21_File ==
    ReachedCollection(obs.unnamed) =>
        LET docs == AskedCollection(obs.unnamed) IN
        /\ (Len(docs) = 1 /\ docs[1].path # None)
              => /\ obs.unnamed.err = "none"
                 /\ obs.unnamed.docs = << [path |-> docs[1].path] >>
        /\ Len(docs) # 1
              => /\ obs.unnamed.err = "ValueError"
                 /\ obs.unnamed.msg = "expected exactly one document"
        /\ (Len(docs) = 1 /\ docs[1].path = None)
              => /\ obs.unnamed.err = "ValueError"
                 /\ obs.unnamed.msg = "expected the document to contain a path field"

C21_Witness ==
    /\ ReachedCollection(obs.unnamed)
    /\ Len(AskedCollection(obs.unnamed)) = 1
    /\ obs.unnamed.err = "none"
    /\ obs.unnamed.docs # << >>



(***************************************************************************)
(* Parsing of function references                                          *)
(***************************************************************************)

\* the outcomes of the five forms on the input, in the order of the grammar
Forms(s) ==
    << MatchPinned(s), MatchRegistry(s), MatchLegacy(s), MatchImage(s), MatchName(s) >>
Matching(s) == { k \in 1..5 : Forms(s)[k].ok }
FirstForm(s) == CHOOSE k \in Matching(s) : \A j \in Matching(s) : k <= j
Parsed == pf.pc = "done" /\ pf.out.err = "none"

(***************************************************************************)
(* C22. parse_fn tries the five forms in the order pinned id, credentials  *)
(* with registry host, credentials without host, image without             *)
(* credentials, bare name, and the first form that matches alone gives     *)
(* the processor id, the ref, the sync flag and the embedded credentials;  *)
(* foo::user:pw@ghcr.io/org/img:v1 gives processor id foo, user user,      *)
(* token pw and ref ghcr.io/org/img:v1.                                    *)
(***************************************************************************)
C22_FirstFormWins ==
    (pf.pc = "done" /\ Matching(pf.input) # {}) =>
        LET first == Forms(pf.input)[FirstForm(pf.input)].ref
            got == pf.out.value
        IN /\ pf.out.err = "none"
           /\ got.processor_id = first.processor_id
           /\ got.ref = first.ref
           /\ got.tag = first.tag
           /\ got.syncRef = first.syncRef
           /\ first.user # None => (got.user = first.user /\ got.token = first.token)
           /\ pf.input = S_embedded =>
                /\ got.processor_id = << "f", "o", "o" >>
                /\ got.user = << "u", "s", "e", "r" >>
                /\ got.token = << "p", "w" >>
                /\ got.ref = << "g", "h", "c", "r", ".", "i", "o", "/", "o", "r", "g", "/", "i", "m", "g", ":", "v", "1" >>

C22_Witness ==
    /\ Parsed
    /\ pf.input = S_embedded
    /\ Cardinality(Matching(pf.input)) >= 2
    /\ pf.out.value.user = << "u", "s", "e", "r" >>

(***************************************************************************)
(* C23. The sync flag of a parsed reference is false, and its ref empty,   *)
(* exactly when the input is a bare name; it is true for every input of    *)
(* the shape name::...; foo::$abc-123 gives processor id foo, ref          *)
(* $abc-123 and sync true, and foo gives processor id foo, an empty ref    *)
(* and sync false.                                                         *)
(***************************************************************************)
C23_SyncFlag ==
    Parsed =>
        LET got == pf.out.value IN
        /\ FunctionName(pf.input).ok => got.syncRef = TRUE
        /\ ~FunctionName(pf.input).ok =>
             (got.syncRef = FALSE /\ got.ref = << >> /\ got.processor_id = pf.input)
        /\ got.syncRef = FALSE <=> got.ref = << >>
        /\ pf.input = S_pinned =>
             (got.processor_id = S_foo /\ got.ref = << "$", "a", "b", "c", "-", "1", "2", "3" >> /\ got.syncRef = TRUE)
        /\ pf.input = S_foo =>
             (got.processor_id = S_foo /\ got.ref = << >> /\ got.syncRef = FALSE)

C23_Witness ==
    /\ Parsed
    /\ pf.input = S_foo
    /\ pf.out.value.syncRef = FALSE

(***************************************************************************)
(* C24. An input that matches none of the five forms makes parse_fn fail   *)
(* with an error whose message carries the input, and the credential       *)
(* store has not been opened when it fails; "not a valid ref!!" is such    *)
(* an input.                                                               *)
(***************************************************************************)
C24_InvalidReference ==
    pf.pc = "done" =>
        /\ Matching(pf.input) = {} =>
             /\ pf.out.err = "ValueError"
             /\ pf.out.msg = << "Invalid function reference: " >> \o pf.input
             /\ pf.out.opened = 0
        /\ pf.input = S_invalid => pf.out.err = "ValueError"

C24_Witness ==
    /\ pf.pc = "done"
    /\ pf.input = S_invalid
    /\ pf.out.err = "ValueError"

\* the stored image records whose key is a prefix of the parsed ref
PrefixRecords ==
    { i \in 1..Len(pf.credentials) :
        /\ pf.credentials[i].type = "image"
        /\ StartsWith(pf.out.value.ref, pf.credentials[i].ref) }
\* a parsed reference without embedded credentials, the store readable
Unauthenticated ==
    /\ Parsed
    /\ MatchForms(pf.input).ref.user = None
    /\ ~pf.unavailable

(***************************************************************************)
(* C25. For a parsed reference without embedded credentials, the user and  *)
(* token attached are those of the stored image record whose key is a      *)
(* prefix of the ref and strictly longer than the key of every other       *)
(* record that is a prefix; with records for ghcr.io and ghcr.io/org and   *)
(* a ref under ghcr.io/org/img the ghcr.io/org record is taken; when no    *)
(* record is a prefix the reference is returned without credentials and    *)
(* without error.                                                          *)
(***************************************************************************)
C25_LongestPrefix ==
    Unauthenticated =>
        LET got == pf.out.value IN
        /\ \A i \in PrefixRecords :
             (\A j \in PrefixRecords \ {i} :
                 Len(pf.credentials[j].ref) < Len(pf.credentials[i].ref))
               => /\ got.user = pf.credentials[i].user
                  /\ got.token = pf.credentials[i].token
        /\ PrefixRecords = {} => (got.user = None /\ got.token = None)

C25_Witness ==
    /\ Unauthenticated
    /\ pf.input = S_plain
    /\ pf.credentials = << ImageCredentials(S_ghcr, << "u", "1" >>, << "t", "1" >>),
                           ImageCredentials(S_ghcr_org, << "u", "2" >>, << "t", "2" >>) >>
    /\ pf.out.value.user = << "u", "2" >>



(***************************************************************************)
(* Environment variables and stored credentials                            *)
(***************************************************************************)
CoreVariablesSet ==
    /\ Truthy(cs.env.MALEVICH_USER)
    /\ Truthy(cs.env.MALEVICH_PASSWORD)
    /\ Truthy(cs.env.MALEVICH_HOST)
ImageVariablesSet ==
    /\ Truthy(cs.env.MALEVICH_IMAGE_USER)
    /\ Truthy(cs.env.MALEVICH_IMAGE_TOKEN)
\* the result of the lookup is a record of credentials.json
FromStore == \E i \in 1..Len(cs.credentials) : cs.out = cs.credentials[i]

(***************************************************************************)
(* C26. A lookup checks the environment first: with the core login,        *)
(* password and host variables set, get_core_credentials returns their     *)
(* values whatever core records are stored and whatever username is asked  *)
(* for; with the image login and token variables set,                      *)
(* get_image_credentials returns them whatever record is stored for the    *)
(* ref; a stored record is returned only when the variables of the lookup  *)
(* are not all set.                                                        *)
(***************************************************************************)
C26_EnvironmentFirst ==
    cs.pc = "done" =>
        /\ (cs.call = "core" /\ CoreVariablesSet) =>
             cs.out = CoreCredentials(cs.env.MALEVICH_USER, cs.env.MALEVICH_PASSWORD,
                                      cs.env.MALEVICH_HOST)
        /\ (cs.call = "image" /\ ImageVariablesSet) =>
             /\ cs.out.user = cs.env.MALEVICH_IMAGE_USER
             /\ cs.out.token = cs.env.MALEVICH_IMAGE_TOKEN
        /\ FromStore =>
             /\ cs.call = "core" => ~CoreVariablesSet
             /\ cs.call = "image" => ~ImageVariablesSet

C26_Witness ==
    /\ cs.pc = "done"
    /\ cs.call = "core"
    /\ CoreVariablesSet
    /\ \E i \in 1..Len(cs.credentials) :
         cs.credentials[i].type = "core" /\ cs.credentials[i].user = cs.asked
    /\ cs.out.user = cs.env.MALEVICH_USER



(***************************************************************************)
(* A Pipeline after build()                                                *)
(***************************************************************************)
\* a builder call on flow 1 made while a Pipeline built from it is held
CallAfterBuild == built[1].id # None /\ ncalls'[1] # ncalls[1]

C28_ScopedRelease ==
    \A f \in FileIds :
        /\ ~fh[f].inside => fh[f].fps = 0
        /\ fh[f].obj \in {"unreferenced", "finalized"} => ~fh[f].temp



(***************************************************************************)
(* The collection an access reads                                          *)
(***************************************************************************)
\* the collection name the results mapping of the stored pipeline declares
\* for a node
DeclaredFor(node) == DictGet(obs.stored.results, node)[1].name
\* the documents the run holds under that name
DeclaredDocs(node) ==
    DictGet(RunCollections(obs.stored, obs.content), DeclaredFor(node))

(***************************************************************************)
(* C29. A named access results[N] for a node N of the pipeline reads the   *)
(* collection that the results mapping declares for N.  (Stated as         *)
(* claimed; the access asks for a collection called N.)                    *)
(***************************************************************************)
C29_NamedReadsDeclared ==
    obs.named.kind # "none" =>
        /\ obs.named.err = "none"
        /\ obs.named.docs = DeclaredDocs(obs.named.name)

(***************************************************************************)
(* C30. An unnamed access on a run of a pipeline with one terminal T,      *)
(* whose pipeline fetch succeeded, reads the collection that the results   *)
(* mapping returned by the platform declares for T, also when the          *)
(* platform renamed it.  (Stated as claimed; the name is recomputed from   *)
(* the hash of the fetched processors.)                                    *)
(***************************************************************************)
C30_UnnamedReadsFetched ==
    ( /\ obs.unnamed.kind # "none"
      /\ Len(ObsTerminals) = 1
      /\ obs.unnamed.err # "PipelineNotFoundError" )
        => /\ obs.unnamed.name = DeclaredFor(ObsTerminals[1][1])
           /\ obs.unnamed.kind = "docs" =>
                /\ obs.unnamed.err = "none"
                /\ obs.unnamed.docs = DeclaredDocs(ObsTerminals[1][1])



(***************************************************************************)
(* Terminal states of a run                                                *)
(***************************************************************************)
\* RunStatus = Literal['in_progress', 'completed', 'failed']
RunStatus == {"in_progress", "completed", "failed"}
\* the statuses of RunStatus with which a run has ended
TerminalStatus == RunStatus \ {"in_progress"}

(***************************************************************************)
(* C31. When the platform reports a run as completed (as failed),          *)
(* status() returns completed (failed), so that a caller polling status()  *)
(* observes a terminal state once the run has ended.  (Stated as claimed;  *)
(* status() raises for every answer other than in_progress, running and    *)
(* waiting.)                                                               *)
(***************************************************************************)
C31_TerminalObserved ==
    obs.answer \in TerminalStatus =>
        /\ obs.status.err = "none"
        /\ obs.status.value = obs.answer



(***************************************************************************)
(* Named results of a local run                                            *)
(***************************************************************************)
(***************************************************************************)
(* C32. On the LocalRun of a pipeline, results[N] for a node N returns a   *)
(* result handle, and the documents of the handle are those of the local   *)
(* results directory under operation id / run id / the collection name     *)
(* declared for N.  (Stated as claimed; LocalRunResults.__getitem__ has    *)
(* no body and returns None.)                                              *)
(***************************************************************************)
C32_LocalNamedResults ==
    lr.named.name # None =>
        /\ lr.named.handle # None
        /\ lr.named.err = "none"
        /\ lr.named.docs
             = LocalDirDocs(lr.result.operation_id, lr.result.id,
                   DictGet(LocalResults(lr.result.pipeline.processors),
                           lr.named.name)[1].name)



(***************************************************************************)
(* The environment in function-reference resolution                        *)
(***************************************************************************)
ImageLoginSet ==
    /\ Truthy(pf.env.MALEVICH_IMAGE_USER)
    /\ Truthy(pf.env.MALEVICH_IMAGE_TOKEN)

C35_FreshNameAccepted ==
    [][ ( /\ ret'.op \in {"startwith", "add"}
          /\ ret'.node \notin Nodes(flows[1]) )
          => ret'.err # "exists"
      ]_vars



(***************************************************************************)
(* C34. runflow runs on exactly one backend per call, chosen by the flag:  *)
(* the local executor iff local=True was passed; a call without the flag   *)
(* uses the remote backend and returns a Run; the collaborator of the      *)
(* other backend is never called.  (Stated as claimed; local defaults to   *)
(* True.)                                                                  *)
(***************************************************************************)
C34_BackendByFlag ==
    (rf.pc = "called" /\ rf.op = "runflow") =>
        /\ rf.backend = "local" <=> rf.passed = {TRUE}
        /\ rf.passed = {} => (rf.backend = "remote" /\ rf.returns = "Run")
        /\ rf.backend = "local" => rr = NoRemoteRun
        /\ rf.backend = "remote" => lr = NoLocalRun



(***************************************************************************)
(* Adding with replace, and the listing                                    *)
(***************************************************************************)
ImageRecordsOf(credentials, ref) ==
    SelectSeq(credentials, LAMBDA c : c.type = "image" /\ c.ref = ref)
CoreRecordsOf(credentials) ==
    SelectSeq(credentials, LAMBDA c : c.type = "core")
OtherThanImage(credentials, ref) ==
    SelectSeq(credentials, LAMBDA c : c.type # "image" \/ c.ref # ref)
OtherThanCore(credentials) ==
    SelectSeq(credentials, LAMBDA c : c.type = "image")

\* the last call added image / core credentials with replace=True
ReplacedImage ==
    \/ cs.call = "add_image_credentials" /\ cs.asked.replace
    \/ cs.call = "cli_add" /\ cs.asked.type = "image" /\ cs.asked.replace /\ cs.out = 0
ReplacedCore ==
    \/ cs.call = "add_core_credentials" /\ cs.asked.replace
    \/ cs.call = "cli_add" /\ cs.asked.type = "core" /\ cs.asked.replace /\ cs.out = 0

(***************************************************************************)
(* C36. After add_image_credentials(ref, ...) with replace=True the store  *)
(* holds exactly one image record for ref, with the new user and token;    *)
(* after add_core_credentials(...) with replace=True it holds exactly one  *)
(* core record; the records of other refs and of the other kind are as     *)
(* they were, whatever calls came before.                                  *)
(***************************************************************************)
C36_ReplaceLeavesOne ==
    /\ ReplacedImage =>
         /\ ImageRecordsOf(cs.credentials, cs.asked.ref)
              = << ImageCredentials(cs.asked.ref, cs.asked.user, cs.asked.secret) >>
         /\ OtherThanImage(cs.credentials, cs.asked.ref)
              = OtherThanImage(cs.before, cs.asked.ref)
    /\ ReplacedCore =>
         /\ Len(CoreRecordsOf(cs.credentials)) = 1
         /\ cs.call = "add_core_credentials" =>
              CoreRecordsOf(cs.credentials)
                = << CoreCredentials(cs.asked.user, cs.asked.secret, DefaultHost) >>
         /\ OtherThanCore(cs.credentials) = OtherThanCore(cs.before)

\* C36 witness: a replacing add met two core records of different users, left
\* by adds without replace, next to an image record
C36_Witness ==
    /\ cs.call = "add_core_credentials" /\ cs.asked.replace
    /\ Len(CoreRecordsOf(cs.before)) = 2
    /\ cs.before[1].user # cs.asked.user
    /\ OtherThanCore(cs.before) # << >>

\* the stores that differ from this one in passwords and tokens only
ListedSecrets == {SecretOf(S_alice), SecretOf(S_bob), << "x" >>}
WithSecret(cred, secret) ==
    IF cred.type = "core" THEN [cred EXCEPT !.password = secret]
    ELSE [cred EXCEPT !.token = secret]
SecretVariants(credentials) ==
    { [i \in 1..Len(credentials) |-> WithSecret(credentials[i], f[i])] :
        f \in [1..Len(credentials) -> ListedSecrets] }

(***************************************************************************)
(* C37. The output of list_all has no password and no token field, and is  *)
(* the same for every store that differs from the listed one only in the   *)
(* passwords and tokens of its records.                                    *)
(***************************************************************************)
C37_ListingHidesSecrets ==
    cs.call = "list_all" =>
        /\ \A i \in 1..Len(cs.out) :
             (DOMAIN cs.out[i]) \cap {"password", "token"} = {}
        /\ \A other \in SecretVariants(cs.credentials) : ListAll(other) = cs.out

\* C37 witness: a store with a core record and image records was listed
C37_Witness ==
    /\ cs.call = "list_all"
    /\ CoreRecordsOf(cs.credentials) # << >>
    /\ Len(OtherThanCore(cs.credentials)) >= 2



(***************************************************************************)
(* C38. When a scope of with_connection, with_credentials or with_user     *)
(* ends, also by an exception of its body, the host and credentials are    *)
(* those the scope found when it was entered; once every scope of a        *)
(* properly nested sequence has been left, the global configuration is     *)
(* what it was before the outermost scope was entered.                     *)
(***************************************************************************)
C38_ScopesRestore ==
    /\ sc.last \in {"ended", "raised"} => sc.config = sc.restored
    /\ sc.stack = << >> => sc.config = sc.base

\* C38 witness: three nested scopes changed the host and the credentials, and
\* all were left, at least one through an exception
C38_Witness ==
    /\ sc.stack = << >>
    /\ sc.deepest = 3
    /\ sc.raised >= 1
    /\ sc.last = "ended"
    /\ sc.base # NoConfig


=============================================================================
